---- MODULE Spec2Model ----
(***************************************************************************)
(* Sentinel command auditing gateway: CommandAuditor                       *)
(* (src/sentinel/command_auditor.py).                                      *)
(*                                                                         *)
(* Commands are TLA+ strings, i.e. sequences of characters, handled with   *)
(* Len, Head, Tail, SubSeq and \o.  Characters outside Latin-1 that the    *)
(* code treats specially are written with a Latin-1 stand-in:              *)
(*     ZWSP       stands for U+200B ZERO WIDTH SPACE                       *)
(*     COMBINING  stands for U+0301 COMBINING ACUTE ACCENT                 *)
(*     FULLWIDTH_S stands for U+FF53 FULLWIDTH LATIN SMALL LETTER S        *)
(* The stand-ins never occur in a command with their Latin-1 meaning.      *)
(***************************************************************************)
EXTENDS Integers, Sequences, FiniteSets, TLC

VARIABLES
    config,            \* CommandAuditor.config : HardKillConfig
    llm_auditor,       \* CommandAuditor.llm_auditor : absent, or its behaviour
    command,           \* the raw command of the first audit call
    pc,                \* "ready" | "returned" | "raised" : the first audit call
    decision,          \* the AuditDecision the first call returned
    variant_kind,      \* "none" | "escaped" | "case" : how variant relates  
    variant,           \* the raw command of the second audit call
    variant_pc,        \* "ready" | "returned" | "raised" : the second call
    variant_decision,  \* the AuditDecision the second call returned
    raw,               \* normalization harness: the input string
    norm_pc,           \* normalization harness: "raw" | "once" | "twice"
    once,              \* _normalize_command(raw)
    twice,             \* _normalize_command(_normalize_command(raw))
    runtime,           \* sentinel_server.runtime is not None
    env,               \* the environment variables of the server process
    request,           \* the request being served, or served last
    response,          \* the answer to it
    req_pc,            \* "idle" | "entered" | "ran" | "done" : its position
    cwd,               \* the working directory of the process
    original_cwd,      \* SentinelExecHandler.execute: original_cwd, "" for None
    audited,           \* the commands the request gave to CommandAuditor.audit
    executed,          \* the commands the request handed to the executor
    llm_calls,         \* the commands the first audit call gave to the LLM auditor
    constitution,      \* CommandAuditor.constitution : the mapping given to __init__
    calls,             \* the concurrent calls of SentinelExecHandler.execute
    requests,          \* ApprovalManager._requests
    resolved,          \* per request id, the first final status it was given
    returned,          \* what the last call of the ApprovalManager returned
    now                \* time.time()

vars == <<config, llm_auditor, command, pc, decision, variant_kind, variant,
          variant_pc, variant_decision, raw, norm_pc, once, twice,
          runtime, env, request, response, req_pc, cwd, original_cwd, audited,
          executed, llm_calls, constitution, calls, requests, resolved, returned,
          now>>

auditVars == <<config, llm_auditor, command, pc, decision, variant_kind, variant,
               variant_pc, variant_decision, llm_calls>>

normVars == <<raw, norm_pc, once, twice>>

gatewayVars == <<runtime, env, request, response, req_pc, cwd, original_cwd, audited,
                 executed>>

approvalVars == <<requests, resolved, returned, now>>

\* what the audit calls, the server and the exec skill leave alone
otherVars == <<constitution, calls, approvalVars>>

----------------------------------------------------------------------------
(* Bounds of the model. *)

\* the number of concurrent calls of SentinelExecHandler.execute
MaxCalls == 2

\* the number of requests the approval store is given
MaxRequests == 2

\* the clock of the approval store runs from 0 to MaxClock
MaxClock == 1

\* a command is a concatenation of at most MaxFrags fragments
MaxFrags == 2

\* the normalization harness takes every string of at most MaxRawLen characters
MaxRawLen == 4

\* an escaped variant inserts runs of 1..MaxBackslashes backslashes
MaxBackslashes == 2

----------------------------------------------------------------------------
(* Characters. *)

ZWSP == "·"
COMBINING == "´"
FULLWIDTH_S == "§"
BACKSLASH == "\\"

\* Python's \s and str.strip()/str.split() whitespace, restricted to ASCII
Whitespace == {" ", "\t", "\n", "\r"}

Uppers == "ABCDEFGHIJKLMNOPQRSTUVWXYZÁÉÍÓÚÝ"
Lowers == "abcdefghijklmnopqrstuvwxyzáéíóúý"
\* the letters that compose with the combining accent into a Latin-1 letter
AcuteBases == "aeiouyAEIOUY"
AcuteComposed == "áéíóúýÁÉÍÓÚÝ"
Digits == "0123456789"

Ch(s, i) == IF 1 <= i /\ i <= Len(s) THEN SubSeq(s, i, i) ELSE ""

From(s, i) == SubSeq(s, i, Len(s))

CharsOf(s) == {SubSeq(s, i, i) : i \in 1..Len(s)}

IndexIn(c, s) == CHOOSE i \in 1..Len(s) : SubSeq(s, i, i) = c

UpperChars == CharsOf(Uppers)
LowerChars == CharsOf(Lowers)
DigitChars == CharsOf(Digits)

ToLower == [c \in UpperChars |-> Ch(Lowers, IndexIn(c, Uppers))]
ToUpper == [c \in LowerChars |-> Ch(Uppers, IndexIn(c, Lowers))]

\* str.lower() of one character
LowerChar(c) == IF c \in UpperChars THEN ToLower[c] ELSE c

\* str.upper() of one character
UpperChar(c) == IF c \in LowerChars THEN ToUpper[c] ELSE c

\* str.lower(), character by character (the string is halved at each step)
RECURSIVE Lower(_)
Lower(s) ==
    IF Len(s) <= 1 THEN LowerChar(s)
    ELSE LET h == Len(s) \div 2
         IN  Lower(SubSeq(s, 1, h)) \o Lower(From(s, h + 1))

\* str.upper(), character by character
RECURSIVE Upper(_)
Upper(s) ==
    IF Len(s) <= 1 THEN UpperChar(s)
    ELSE LET h == Len(s) \div 2
         IN  Upper(SubSeq(s, 1, h)) \o Upper(From(s, h + 1))

StartsWith(s, p) == Len(p) <= Len(s) /\ SubSeq(s, 1, Len(p)) = p

EndsWith(s, p) == Len(p) <= Len(s) /\ SubSeq(s, Len(s) - Len(p) + 1, Len(s)) = p

\* Python's  sub in s
Contains(s, sub) == \E i \in 1..(Len(s) - Len(sub) + 1) : SubSeq(s, i, i + Len(sub) - 1) = sub

\* the least element of a non-empty set of numbers, and the greatest
Least(P) == CHOOSE i \in P : \A j \in P : i <= j
Greatest(P) == CHOOSE i \in P : \A j \in P : j <= i

\* the position of the first character of s that is in cs, Len(s) + 1 when
\* there is none
FirstIn(s, cs) ==
    LET P == {i \in 1..Len(s) : SubSeq(s, i, i) \in cs}
    IN  IF P = {} THEN Len(s) + 1 ELSE Least(P)

\* the position of the last character of s that is in cs, 0 when there is none
LastIn(s, cs) ==
    LET P == {i \in 1..Len(s) : SubSeq(s, i, i) \in cs}
    IN  IF P = {} THEN 0 ELSE Greatest(P)

\* the length of the run of characters of set cs that starts s
RunLen(s, cs) ==
    LET P == {i \in 1..Len(s) : SubSeq(s, i, i) \notin cs}
    IN  IF P = {} THEN Len(s) ELSE Least(P) - 1

\* the length of the run of characters outside set cs that starts s
RunLenNot(s, cs) == FirstIn(s, cs) - 1

LStrip(s) == From(s, RunLen(s, Whitespace) + 1)

RStrip(s) ==
    LET P == {i \in 1..Len(s) : SubSeq(s, i, i) \notin Whitespace}
    IN  IF P = {} THEN "" ELSE SubSeq(s, 1, Greatest(P))

\* str.strip()
Strip(s) == RStrip(LStrip(s))

----------------------------------------------------------------------------
(* _normalize_command *)

\* unicodedata.normalize("NFKC", s) on the model's characters: a fullwidth
\* letter folds to its ASCII letter, and a vowel directly followed by the
\* combining accent composes into the precomposed letter.  (The model never
\* places the combining accent after a consonant that has a precomposed form
\* outside Latin-1.)
RECURSIVE NFKC(_)
NFKC(s) ==
    LET i == FirstIn(s, {FULLWIDTH_S, COMBINING})
        base == Ch(s, i - 1)
    IN  IF i > Len(s) THEN s
        ELSE IF Ch(s, i) = FULLWIDTH_S
             THEN SubSeq(s, 1, i - 1) \o "s" \o NFKC(From(s, i + 1))
        ELSE IF base # "" /\ base \in CharsOf(AcuteBases)
             THEN SubSeq(s, 1, i - 2) \o Ch(AcuteComposed, IndexIn(base, AcuteBases))
                      \o NFKC(From(s, i + 1))
        ELSE SubSeq(s, 1, i) \o NFKC(From(s, i + 1))

\* normalized.replace("\u200b", "")
RECURSIVE StripZwsp(_)
StripZwsp(s) ==
    LET i == FirstIn(s, {ZWSP})
    IN  IF i > Len(s) THEN s
        ELSE SubSeq(s, 1, i - 1) \o StripZwsp(From(s, i + 1))

\* re.sub(r"\\\r?\n", "", s)
RECURSIVE JoinContinuations(_)
JoinContinuations(s) ==
    LET i == FirstIn(s, {BACKSLASH})
    IN  IF i > Len(s) THEN s
        ELSE IF Ch(s, i + 1) = "\n"
             THEN SubSeq(s, 1, i - 1) \o JoinContinuations(From(s, i + 2))
        ELSE IF Ch(s, i + 1) = "\r" /\ Ch(s, i + 2) = "\n"
             THEN SubSeq(s, 1, i - 1) \o JoinContinuations(From(s, i + 3))
        ELSE SubSeq(s, 1, i) \o JoinContinuations(From(s, i + 1))

\* re.sub(r"\\+([^\s])", r"\1", s): a run of k backslashes followed by a
\* non-whitespace character is replaced by that character; a run followed by
\* whitespace or the end of the string matches only by backtracking, the last
\* backslash of the run being the captured character (k >= 2), or not at all
\* (k = 1): one backslash is left in both cases.
RECURSIVE StripBackslashes(_)
StripBackslashes(s) ==
    LET i == FirstIn(s, {BACKSLASH})
        k == RunLen(From(s, i), {BACKSLASH})
        c == Ch(s, i + k)
    IN  IF i > Len(s) THEN s
        ELSE IF c # "" /\ c \notin Whitespace
             THEN SubSeq(s, 1, i - 1) \o c \o StripBackslashes(From(s, i + k + 1))
        ELSE SubSeq(s, 1, i) \o StripBackslashes(From(s, i + k))

\* re.sub(r"\\+\s+", " ", s)
RECURSIVE CollapseEscapedSpace(_)
CollapseEscapedSpace(s) ==
    LET i == FirstIn(s, {BACKSLASH})
        k == RunLen(From(s, i), {BACKSLASH})
        m == RunLen(From(s, i + k), Whitespace)
    IN  IF i > Len(s) THEN s
        ELSE IF m >= 1
             THEN SubSeq(s, 1, i - 1) \o " " \o CollapseEscapedSpace(From(s, i + k + m))
        ELSE SubSeq(s, 1, i + k - 1) \o CollapseEscapedSpace(From(s, i + k))

\* re.sub(r"\s+", " ", s)
RECURSIVE CollapseWhitespace(_)
CollapseWhitespace(s) ==
    LET i == FirstIn(s, Whitespace)
        m == RunLen(From(s, i), Whitespace)
    IN  IF i > Len(s) THEN s
        ELSE SubSeq(s, 1, i - 1) \o " " \o CollapseWhitespace(From(s, i + m))

\* CommandAuditor._normalize_command
_normalize_command(s) ==
    Strip(CollapseWhitespace(CollapseEscapedSpace(StripBackslashes(
        JoinContinuations(StripZwsp(NFKC(s)))))))

----------------------------------------------------------------------------
(* Tokenizing: shlex.split(command, posix=True) and str.split() *)

\* the length of the run of non-whitespace characters that starts s
WordLen(s) == RunLenNot(s, Whitespace)

\* str.split(): the maximal runs of non-whitespace characters
RECURSIVE SplitWhitespace(_)
SplitWhitespace(s) ==
    LET t == LStrip(s)
        n == WordLen(t)
    IN  IF t = "" THEN <<>>
        ELSE <<SubSeq(t, 1, n)>> \o SplitWhitespace(From(t, n + 1))

Quotes == {"'", "\""}

\* The state of shlex.shlex (POSIX mode, whitespace_split) while it reads a
\* string: st is the lexer state (" " between tokens, "a" in a word, a quote
\* character inside quotes, BACKSLASH after an escape), esc the state to
\* return to after an escape, tok the token read so far, quoted whether the
\* token had a quoted part, toks the tokens already produced.
Lexer(st, esc, tok, quoted, toks) ==
    [st |-> st, esc |-> esc, tok |-> tok, quoted |-> quoted, toks |-> toks]

\* the tokens once the current token ends
EndToken(lx) == IF lx.tok # "" \/ lx.quoted THEN Append(lx.toks, lx.tok) ELSE lx.toks

\* shlex.shlex.read_token: the lexer state after reading character c
ShlexStep(lx, c) ==
    IF lx.st = " "
    THEN IF c \in Whitespace THEN lx
         ELSE IF c = BACKSLASH THEN Lexer(BACKSLASH, "a", lx.tok, lx.quoted, lx.toks)
         ELSE IF c \in Quotes THEN Lexer(c, lx.esc, lx.tok, lx.quoted, lx.toks)
         ELSE Lexer("a", lx.esc, c, lx.quoted, lx.toks)
    ELSE IF lx.st \in Quotes
    THEN IF c = lx.st THEN Lexer("a", lx.esc, lx.tok, TRUE, lx.toks)
         ELSE IF c = BACKSLASH /\ lx.st = "\""
              THEN Lexer(BACKSLASH, lx.st, lx.tok, TRUE, lx.toks)
         ELSE Lexer(lx.st, lx.esc, lx.tok \o c, TRUE, lx.toks)
    ELSE IF lx.st = BACKSLASH
    THEN IF lx.esc \in Quotes /\ c # BACKSLASH /\ c # lx.esc
         THEN Lexer(lx.esc, lx.esc, lx.tok \o BACKSLASH \o c, lx.quoted, lx.toks)
         ELSE Lexer(lx.esc, lx.esc, lx.tok \o c, lx.quoted, lx.toks)
    ELSE \* lx.st = "a"
         IF c \in Whitespace THEN Lexer(" ", lx.esc, "", FALSE, EndToken(lx))
         ELSE IF c \in Quotes THEN Lexer(c, lx.esc, lx.tok, lx.quoted, lx.toks)
         ELSE IF c = BACKSLASH THEN Lexer(BACKSLASH, "a", lx.tok, lx.quoted, lx.toks)
         ELSE Lexer("a", lx.esc, lx.tok \o c, lx.quoted, lx.toks)

\* the characters that do more than extend the token, in each lexer state
ShlexStops(st) ==
    IF st \in {" ", "a"} THEN Whitespace \cup Quotes \cup {BACKSLASH}
    ELSE IF st = "\"" THEN {"\"", BACKSLASH}
    ELSE {"'"}

\* the lexer state after reading a run of characters that only extend the
\* token: ShlexStep applied to each of them
ShlexRun(lx, run) ==
    IF lx.st = " " THEN Lexer("a", lx.esc, run, lx.quoted, lx.toks)
    ELSE IF lx.st = "a" THEN Lexer("a", lx.esc, lx.tok \o run, lx.quoted, lx.toks)
    ELSE Lexer(lx.st, lx.esc, lx.tok \o run, TRUE, lx.toks)

\* the lexer state after reading s
RECURSIVE ShlexScan(_, _)
ShlexScan(s, lx) ==
    LET n == IF lx.st = BACKSLASH THEN 0 ELSE RunLenNot(s, ShlexStops(lx.st))
    IN  IF s = "" THEN lx
        ELSE IF n >= 1 THEN ShlexScan(From(s, n + 1), ShlexRun(lx, SubSeq(s, 1, n)))
        ELSE ShlexScan(Tail(s), ShlexStep(lx, Head(s)))

\* shlex.split(s, posix=True): ok = FALSE where shlex raises ValueError ("No
\* closing quotation", "No escaped character")
ShlexSplit(s) ==
    LET lx == ShlexScan(s, Lexer(" ", " ", "", FALSE, <<>>))
    IN  IF lx.st \in Quotes \/ lx.st = BACKSLASH
        THEN [ok |-> FALSE, tokens |-> <<>>]
        ELSE [ok |-> TRUE, tokens |-> EndToken(lx)]

\* try: tokens = shlex.split(command, posix=True)
\* except ValueError: tokens = command.split()
Tokens(cmd) ==
    LET r == ShlexSplit(cmd)
    IN  IF r.ok THEN r.tokens ELSE SplitWhitespace(cmd)

\* token.rsplit("/", 1)[-1]
Basename(t) == From(t, LastIn(t, {"/"}) + 1)

----------------------------------------------------------------------------
(* AuditDecision (sentinel.models) *)

Decision(allowed, risk_score, reason) ==
    [allowed |-> allowed, risk_score |-> risk_score, reason |-> reason]

\* AuditDecision.reject(reason, risk_score)
Reject(reason, risk_score) == Decision(FALSE, risk_score, reason)

\* a value for "no decision yet"
NoDecision == Decision(FALSE, -1, "")

\* in place of a decision: the call ended with ValueError("Invalid IPv6 URL"),
\* raised by urlparse in _extract_domain
ValueErrorRaised == Decision(FALSE, -2, "ValueError: Invalid IPv6 URL")

EmptyReason == "Empty command is rejected under fail-closed policy."
LockdownReason == "Lockdown mode active: command not in allowed_commands."
BlockedTokenPrefix == "Blocked token detected: "
BlockedPathPrefix == "Blocked path access detected: "
BlockedToolPrefix == "Blocked tool detected: "
Base64Reason == "Obfuscated payload execution pattern detected: base64 to shell."
NoUrlReason == "Network command without explicit URL/domain is rejected."
NoDomainPrefix == "Could not parse domain from network target: "
NotWhitelistedPrefix == "Outbound network domain not whitelisted: "
ExplicitAllowReason == "Command explicitly allowed by policy."
LlmUnavailableReason == "LLM auditor unavailable; fail-closed policy applied."

----------------------------------------------------------------------------
(* The rules of CommandAuditor *)

\* for blocked in entries: if blocked.lower() in lowered_command: the first
\* such entry as <<entry>>, <<>> when there is none
RECURSIVE FirstContained(_, _)
FirstContained(entries, lowered_command) ==
    IF entries = <<>> THEN <<>>
    ELSE IF Contains(lowered_command, Lower(Head(entries))) THEN <<Head(entries)>>
    ELSE FirstContained(Tail(entries), lowered_command)

\* \w of Python's re on the model's characters
WordChars == LowerChars \cup UpperChars \cup DigitChars \cup {"_"}

IsWordChar(c) == c \in WordChars

\* \b at the position before character i of s (i in 1..Len(s)+1)
WordBoundary(s, i) == IsWordChar(Ch(s, i - 1)) # IsWordChar(Ch(s, i))

\* tokens[0].lower() if tokens else ""
FirstToken(tokens) == IF tokens # <<>> THEN Lower(Head(tokens)) ELSE ""

\* one turn of the loop of _is_allowed_in_lockdown (lines 103-115): the entry
\* allowed_normalized lets the command through
AllowedMatches(allowed_normalized, normalized_command, first_token, first_basename) ==
    /\ allowed_normalized # ""
    /\ \/ IF Contains(allowed_normalized, " ")
          THEN \/ normalized_command = allowed_normalized
               \/ StartsWith(normalized_command, allowed_normalized)
          ELSE \/ normalized_command = allowed_normalized
               \/ StartsWith(normalized_command, allowed_normalized \o " ")
       \/ first_token = allowed_normalized
       \/ first_basename = allowed_normalized

\* the loop of _is_allowed_in_lockdown over config.allowed_commands
AnyAllowedMatches(cfg, normalized_command, first_token) ==
    \E i \in 1..Len(cfg.allowed_commands) :
        AllowedMatches(Lower(_normalize_command(cfg.allowed_commands[i])),
                       normalized_command, first_token, Basename(first_token))

\* CommandAuditor._is_allowed_in_lockdown
_is_allowed_in_lockdown(cfg, cmd) ==
    /\ cfg.allowed_commands # <<>>
    /\ AnyAllowedMatches(cfg, Lower(Strip(cmd)), FirstToken(Tokens(cmd)))

\* re.fullmatch(r"\d+(?:\.\d+)*", s)
RECURSIVE IsVersion(_)
IsVersion(s) ==
    LET n == RunLen(s, DigitChars)
    IN  /\ n >= 1
        /\ \/ n = Len(s)
           \/ Ch(s, n + 1) = "." /\ IsVersion(From(s, n + 2))

\* ToolMatches with the blocked tool looked for anywhere in the candidate
ToolMatches_Substring(candidate, blocked_tool) ==
    Contains(candidate, Strip(Lower(blocked_tool)))

\* one token against one blocked tool, in _match_blocked_tool
ToolMatches(candidate, blocked_tool) ==
    LET blocked == Strip(Lower(blocked_tool))
    IN  \/ candidate = blocked
        \/ /\ blocked = "python"
           /\ StartsWith(candidate, "python")
           /\ candidate = "python" \/ IsVersion(From(candidate, 7))

\* for blocked_tool in blocked_tools: the first one the candidate matches
RECURSIVE FirstToolMatch(_, _)
FirstToolMatch(candidate, blocked_tools) ==
    IF blocked_tools = <<>> THEN <<>>
    ELSE IF ToolMatches(candidate, Head(blocked_tools)) THEN <<Head(blocked_tools)>>
    ELSE FirstToolMatch(candidate, Tail(blocked_tools))

\* CommandAuditor._match_blocked_tool: the first token, in order, that matches
\* a blocked tool, and for it the first blocked tool in configuration order
RECURSIVE MatchTokens(_, _)
MatchTokens(cfg, tokens) ==
    IF tokens = <<>> THEN <<>>
    ELSE LET stripped == Lower(Strip(Head(tokens)))
             hit == FirstToolMatch(Basename(stripped), cfg.blocked_tools)
         IN  IF stripped # "" /\ hit # <<>> THEN hit ELSE MatchTokens(cfg, Tail(tokens))

_match_blocked_tool(cfg, cmd) == MatchTokens(cfg, Tokens(cmd))

\* re.search(r"(?:\||&&|;)\s*(?:bash|sh)\b", s)
InvokesShell(s) ==
    \E i \in 1..Len(s) :
        LET sepLen == IF Ch(s, i) \in {"|", ";"} THEN 1
                      ELSE IF StartsWith(From(s, i), "&&") THEN 2 ELSE 0
            rest == LStrip(From(s, i + sepLen))
            Word(w) == StartsWith(rest, w) /\ ~IsWordChar(Ch(rest, Len(w) + 1))
        IN  sepLen > 0 /\ (Word("bash") \/ Word("sh"))

\* CommandAuditor._contains_base64_shell_exec
_contains_base64_shell_exec(lowered_command) ==
    /\ \/ Contains(lowered_command, "base64 -d")
       \/ Contains(lowered_command, "base64 --decode")
    /\ InvokesShell(lowered_command)

\* re.search(rf"\b{re.escape(tool)}\b", s)
ContainsWord(s, tool) ==
    \E i \in 1..(Len(s) - Len(tool) + 1) :
        /\ SubSeq(s, i, i + Len(tool) - 1) = tool
        /\ WordBoundary(s, i)
        /\ WordBoundary(s, i + Len(tool))

\* CommandAuditor._contains_network_tool
_contains_network_tool(cfg, lowered_command) ==
    \E i \in 1..Len(cfg.blocked_network_tools) :
        ContainsWord(lowered_command, Lower(cfg.blocked_network_tools[i]))

IsUrlToken(token) == StartsWith(token, "http://") \/ StartsWith(token, "https://")

\* re.findall(r"https?://[^\s'\"]+", s)
\* the length of the match of https?://[^\s'\"]+ at the start of s, 0 when it
\* does not match there
UrlLen(s) ==
    LET schemeLen == IF StartsWith(s, "https://") THEN 8
                     ELSE IF StartsWith(s, "http://") THEN 7 ELSE 0
        n == RunLenNot(From(s, schemeLen + 1), Whitespace \cup Quotes)
    IN  IF schemeLen > 0 /\ n >= 1 THEN schemeLen + n ELSE 0

RECURSIVE FindUrls(_)
FindUrls(s) ==
    LET P == {i \in 1..Len(s) : UrlLen(From(s, i)) > 0}
        i == Least(P)
        n == UrlLen(From(s, i))
    IN  IF P = {} THEN <<>>
        ELSE <<SubSeq(s, i, i + n - 1)>> \o FindUrls(From(s, i + n))

\* the tokens that start with http:// or https://
RECURSIVE UrlTokens(_)
UrlTokens(tokens) ==
    IF tokens = <<>> THEN <<>>
    ELSE IF IsUrlToken(Head(tokens)) THEN <<Head(tokens)>> \o UrlTokens(Tail(tokens))
    ELSE UrlTokens(Tail(tokens))

\* CommandAuditor._extract_urls
_extract_urls(cmd) ==
    LET r == ShlexSplit(cmd)
        urls == UrlTokens(r.tokens)
    IN  IF ~r.ok THEN <<>>
        ELSE IF urls # <<>> THEN urls
        ELSE FindUrls(cmd)

\* the text after the last occurrence of character c in s (s itself without c)
AfterLast(s, c) == From(s, LastIn(s, {c}) + 1)

\* urlparse(url).netloc for a url that starts with http:// or https://: the
\* text after the scheme up to the first "/", "?" or "#"
Netloc(url) ==
    LET afterScheme == From(url, IF StartsWith(url, "https://") THEN 9 ELSE 8)
    IN  SubSeq(afterScheme, 1, RunLenNot(afterScheme, {"/", "?", "#"}))

\* urlparse(url) raises ValueError("Invalid IPv6 URL"): the network location
\* has an opening bracket without a closing one, or the reverse
UrlparseRaises(url) ==
    Contains(Netloc(url), "[") # Contains(Netloc(url), "]")

\* CommandAuditor._extract_domain when urlparse returns: urlparse(url).hostname,
\* lowercased, "" for None.  The host follows the last "@" of the network
\* location and ends at the first ":".  (No url of the model has a host in
\* balanced brackets.)
_extract_domain(url) ==
    LET hostinfo == AfterLast(Netloc(url), "@")
    IN  Lower(SubSeq(hostinfo, 1, RunLenNot(hostinfo, {":"})))

\* _is_whitelisted_domain with a suffix test that does not ask for the "."
_is_whitelisted_domain_NoDot(cfg, domain) ==
    \E i \in 1..Len(cfg.whitelisted_domains) :
        LET candidate == Strip(Lower(cfg.whitelisted_domains[i]))
        IN  domain = candidate \/ EndsWith(domain, candidate)

\* CommandAuditor._is_whitelisted_domain
_is_whitelisted_domain(cfg, domain) ==
    \E i \in 1..Len(cfg.whitelisted_domains) :
        LET candidate == Strip(Lower(cfg.whitelisted_domains[i]))
        IN  domain = candidate \/ EndsWith(domain, "." \o candidate)

\* the network gate of _hard_kill_filter (lines 70-86): the rejection of the
\* first url, in order, without a domain or with a domain not whitelisted
RECURSIVE CheckUrls(_, _)
CheckUrls(cfg, urls) ==
    IF urls = <<>> THEN <<>>
    ELSE IF UrlparseRaises(Head(urls)) THEN <<ValueErrorRaised>>
    ELSE LET domain == _extract_domain(Head(urls))
         IN  IF domain = "" THEN <<Reject(NoDomainPrefix \o Head(urls), 10)>>
             ELSE IF ~_is_whitelisted_domain(cfg, domain)
                  THEN <<Reject(NotWhitelistedPrefix \o domain, 10)>>
             ELSE CheckUrls(cfg, Tail(urls))

NetworkGate(cfg, cmd) ==
    LET urls == _extract_urls(cmd)
    IN  IF ~_contains_network_tool(cfg, Lower(cmd)) THEN <<>>
        ELSE IF urls = <<>> THEN <<Reject(NoUrlReason, 10)>>
        ELSE CheckUrls(cfg, urls)

\* the blocked-string rule of _hard_kill_filter (lines 55-57)
BlockedStringRule(cfg, lowered_command) ==
    LET hit == FirstContained(cfg.blocked_strings, lowered_command)
    IN  IF hit = <<>> THEN <<>> ELSE <<Reject(BlockedTokenPrefix \o hit[1], 10)>>

\* the blocked-path rule of _hard_kill_filter (lines 59-61)
BlockedPathRule(cfg, lowered_command) ==
    LET hit == FirstContained(cfg.blocked_paths, lowered_command)
    IN  IF hit = <<>> THEN <<>> ELSE <<Reject(BlockedPathPrefix \o hit[1], 10)>>

\* the blocked-tool rule of _hard_kill_filter (lines 63-65)
BlockedToolRule(cfg, cmd) ==
    LET hit == _match_blocked_tool(cfg, cmd)
    IN  IF hit = <<>> THEN <<>> ELSE <<Reject(BlockedToolPrefix \o hit[1], 10)>>

\* the base64-to-shell rule of _hard_kill_filter (lines 67-68)
Base64Rule(lowered_command) ==
    IF _contains_base64_shell_exec(lowered_command) THEN <<Reject(Base64Reason, 10)>> ELSE <<>>

\* the first of two rule results that is a rejection (the second rule is not
\* evaluated when the first one rejects)
OrElse(rejection, later) == IF rejection # <<>> THEN rejection ELSE later

\* _hard_kill_filter with the blocked-path loop placed before the blocked-string
\* loop
_hard_kill_filter_PathFirst(cfg, cmd) ==
    IF Strip(cmd) = "" THEN <<Reject(EmptyReason, 10)>>
    ELSE IF cfg.lockdown_mode /\ ~_is_allowed_in_lockdown(cfg, cmd)
         THEN <<Reject(LockdownReason, 10)>>
    ELSE OrElse(BlockedPathRule(cfg, Lower(cmd)),
         OrElse(BlockedStringRule(cfg, Lower(cmd)),
         OrElse(BlockedToolRule(cfg, cmd),
         OrElse(Base64Rule(Lower(cmd)),
                NetworkGate(cfg, cmd)))))

\* _hard_kill_filter without the lockdown rejection of lines 50-51
_hard_kill_filter_NoLockdown(cfg, cmd) ==
    IF Strip(cmd) = "" THEN <<Reject(EmptyReason, 10)>>
    ELSE OrElse(BlockedStringRule(cfg, Lower(cmd)),
         OrElse(BlockedPathRule(cfg, Lower(cmd)),
         OrElse(BlockedToolRule(cfg, cmd),
         OrElse(Base64Rule(Lower(cmd)),
                NetworkGate(cfg, cmd)))))

\* CommandAuditor._hard_kill_filter: <<>> for None, <<d>> for a rejection d
_hard_kill_filter(cfg, cmd) ==
    IF Strip(cmd) = "" THEN <<Reject(EmptyReason, 10)>>
    ELSE IF cfg.lockdown_mode /\ ~_is_allowed_in_lockdown(cfg, cmd)
         THEN <<Reject(LockdownReason, 10)>>
    ELSE OrElse(BlockedStringRule(cfg, Lower(cmd)),
         OrElse(BlockedPathRule(cfg, Lower(cmd)),
         OrElse(BlockedToolRule(cfg, cmd),
         OrElse(Base64Rule(Lower(cmd)),
                NetworkGate(cfg, cmd)))))

----------------------------------------------------------------------------
(* The LLM auditor (sentinel.sentinel_auditor.SentinelAuditor), an external  *)
(* collaborator of CommandAuditor: absent, or present with one behaviour.    *)

LlmReason == "LLM verdict"

\* llm_auditor is None
LlmAbsent == [present |-> FALSE, raises |-> FALSE, allowed |-> FALSE, risk_score |-> 0]

\* an auditor that answers every command with the same verdict
LlmAnswers(allowed, risk_score) ==
    [present |-> TRUE, raises |-> FALSE, allowed |-> allowed, risk_score |-> risk_score]

\* an auditor whose audit_command fails (an exception of the model client, a
\* timeout surfacing as one)
LlmRaises == [present |-> TRUE, raises |-> TRUE, allowed |-> FALSE, risk_score |-> 0]

\* SentinelAuditor.audit_command(normalized_command)
audit_command(llm, normalized_command) ==
    [raised |-> llm.raises,
     decision |-> IF llm.raises THEN NoDecision
                  ELSE Decision(llm.allowed, llm.risk_score, LlmReason),
     llm_calls |-> <<normalized_command>>]

----------------------------------------------------------------------------
(* CommandAuditor.audit *)

\* an audit call that returns d, or raises, without a call of the LLM auditor
Returned(d) == [raised |-> FALSE, decision |-> d, llm_calls |-> <<>>]

Raised == [raised |-> TRUE, decision |-> NoDecision, llm_calls |-> <<>>]

\* lines 38-44 of audit with the LLM auditor asked before the allow-list
AfterFilter_LlmFirst(cfg, llm, normalized_command) ==
    IF llm.present THEN audit_command(llm, normalized_command)
    ELSE IF _is_allowed_in_lockdown(cfg, normalized_command)
         THEN Returned(Decision(TRUE, 0, ExplicitAllowReason))
    ELSE Returned(Reject(LlmUnavailableReason, 9))

\* lines 38-44 of audit, reached when the hard-kill filter returned None
AfterFilter(cfg, llm, normalized_command) ==
    IF _is_allowed_in_lockdown(cfg, normalized_command)
    THEN Returned(Decision(TRUE, 0, ExplicitAllowReason))
    ELSE IF ~llm.present
         THEN Returned(Reject(LlmUnavailableReason, 9))
    ELSE audit_command(llm, normalized_command)

\* lines 34-36 of audit
FilterFirst(deterministic_decision, later) ==
    IF deterministic_decision = <<ValueErrorRaised>>
    THEN Raised
    ELSE IF deterministic_decision # <<>> THEN Returned(deterministic_decision[1])
    ELSE later

\* audit on the normalized command, with the allow-list acceptance placed
\* before the hard-kill filter
AuditNormalized_AllowListFirst(cfg, llm, normalized_command) ==
    IF _is_allowed_in_lockdown(cfg, normalized_command)
    THEN Returned(Decision(TRUE, 0, ExplicitAllowReason))
    ELSE FilterFirst(_hard_kill_filter(cfg, normalized_command),
                     AfterFilter(cfg, llm, normalized_command))

\* lines 34-44 of audit, on the normalized command
AuditNormalized(cfg, llm, normalized_command) ==
    FilterFirst(_hard_kill_filter(cfg, normalized_command),
                AfterFilter(cfg, llm, normalized_command))

\* CommandAuditor.audit(command): the decision returned, or raised = TRUE when
\* the call ends with an exception
audit(cfg, llm, cmd) == AuditNormalized(cfg, llm, _normalize_command(cmd))

----------------------------------------------------------------------------
(* The constitution and CommandAuditor._load_config *)

\* a value of the constitution: kind is "missing" (the key is not in the
\* mapping), "none", "str", "list", "number" or "bool"
Value(kind, text, items, num, flag) ==
    [kind |-> kind, text |-> text, items |-> items, num |-> num, flag |-> flag]

Missing == Value("missing", "", <<>>, 0, FALSE)
None == Value("none", "", <<>>, 0, FALSE)
Str(s) == Value("str", s, <<>>, 0, FALSE)
List(items) == Value("list", "", items, 0, FALSE)
Number(n) == Value("number", "", <<>>, n, FALSE)
Bool(b) == Value("bool", "", <<>>, 0, b)

\* str(item) for a string or a natural number
RECURSIVE str(_)
str(v) ==
    IF v.kind = "str" THEN v.text
    ELSE IF v.num < 10 THEN Ch(Digits, v.num + 1)
    ELSE str(Number(v.num \div 10)) \o Ch(Digits, (v.num % 10) + 1)

\* a section of the constitution: kind is "missing", "none" or "mapping"
Section(kind, keys) == [kind |-> kind, keys |-> keys]

\* the keys the loader asks a mapping for
ConfigKeys ==
    {"blocked_strings", "blocked_paths", "blocked_tools", "whitelisted_domains",
     "lockdown_mode", "allowed_commands"}

NoKeys == [k \in ConfigKeys |-> Missing]

\* a section that is not in the constitution: constitution.get(name, {})
NoSection == Section("missing", NoKeys)

NullSection == Section("none", NoKeys)

\* a constitution: its three sections and its other top-level keys
Constitution(hard_kill, network_lock, execution_mode, top) ==
    [hard_kill |-> hard_kill, network_lock |-> network_lock,
     execution_mode |-> execution_mode, top |-> top]

\* constitution or {}
NoConstitution == Constitution(NoSection, NoSection, NoSection, NoKeys)

\* mapping.get(key, default)
Get(keys, key, default) == IF keys[key].kind = "missing" THEN default ELSE keys[key]

\* tuple(str(item) for item in value)
StrItems(items) == [i \in 1..Len(items) |-> str(items[i])]

\* _as_tuple(value, default), lines 229-236
_as_tuple(value, default) ==
    IF value.kind = "none" THEN default
    ELSE IF value.kind = "str" THEN <<value.text>>
    ELSE IF value.kind = "list" THEN StrItems(value.items)
    ELSE default

\* bool(value)
bool(value) ==
    IF value.kind = "str" THEN value.text # ""
    ELSE IF value.kind = "list" THEN value.items # <<>>
    ELSE IF value.kind = "number" THEN value.num # 0
    ELSE IF value.kind = "bool" THEN value.flag
    ELSE FALSE

\* the defaults of lines 202-206
DefaultBlockedStrings == <<"sudo", "rm -rf", "mkfs">>
DefaultBlockedPaths == <<"~/.ssh", "~/.env", "/etc/">>
DefaultBlockedTools == <<"python", "pip", "npm">>
DefaultNetworkTools == <<"curl", "wget">>

\* HardKillConfig(blocked_strings, blocked_paths, blocked_tools,
\* blocked_network_tools, whitelisted_domains, lockdown_mode, allowed_commands)
HardKillConfig(strings, paths, tools, network_tools, domains, lockdown, allowed) ==
    [blocked_strings |-> strings,
     blocked_paths |-> paths,
     blocked_tools |-> tools,
     blocked_network_tools |-> network_tools,
     whitelisted_domains |-> domains,
     lockdown_mode |-> lockdown,
     allowed_commands |-> allowed]

\* the config of a CommandAuditor that was never constructed
NoConfig == HardKillConfig(<<>>, <<>>, <<>>, <<>>, <<>>, FALSE, <<>>)

\* lines 202-226 of _load_config, on the three mappings of lines 198-200 and
\* the top-level keys
LoadSections(hard_kill, network_lock, execution_mode, top) ==
    HardKillConfig(
        _as_tuple(Get(hard_kill, "blocked_strings", None), DefaultBlockedStrings),
        _as_tuple(Get(hard_kill, "blocked_paths", None), DefaultBlockedPaths),
        _as_tuple(Get(hard_kill, "blocked_tools", None), DefaultBlockedTools),
        _as_tuple(Get(network_lock, "blocked_tools", None), DefaultNetworkTools),
        _as_tuple(Get(network_lock, "whitelisted_domains",
                      Get(top, "whitelisted_domains", List(<<>>))), <<>>),
        bool(Get(execution_mode, "lockdown_mode",
                 Get(top, "lockdown_mode", Bool(FALSE)))),
        _as_tuple(Get(execution_mode, "allowed_commands",
                      Get(top, "allowed_commands", List(<<>>))), <<>>))

\* _load_config that reads the three sections only
_load_config_SectionsOnly(c) ==
    IF "none" \in {c.hard_kill.kind, c.network_lock.kind, c.execution_mode.kind}
    THEN [raised |-> TRUE, config |-> NoConfig]
    ELSE [raised |-> FALSE,
          config |-> LoadSections(c.hard_kill.keys, c.network_lock.keys,
                                  c.execution_mode.keys, NoKeys)]

\* CommandAuditor._load_config(constitution): a section that is None has no
\* get, the call ends with AttributeError
_load_config(c) ==
    IF "none" \in {c.hard_kill.kind, c.network_lock.kind, c.execution_mode.kind}
    THEN [raised |-> TRUE, config |-> NoConfig]
    ELSE [raised |-> FALSE,
          config |-> LoadSections(c.hard_kill.keys, c.network_lock.keys,
                                  c.execution_mode.keys, c.top)]

----------------------------------------------------------------------------
(* The inputs of the model *)

\* a HardKillConfig: the blocked lists are fixed, the lockdown fields and the
\* whitelist vary
Policy(lockdown_mode, allowed_commands, whitelisted_domains) ==
    [blocked_strings |-> <<"sudo", "su", "cle´">>,
     blocked_paths |-> <<"/etc/", "etc">>,
     blocked_tools |-> <<"pip", "python">>,
     blocked_network_tools |-> <<"curl">>,
     whitelisted_domains |-> whitelisted_domains,
     lockdown_mode |-> lockdown_mode,
     allowed_commands |-> allowed_commands]

\* an allow-list whose entries all normalize to the empty string
BlankAllowList == <<" ", "\\\n", ZWSP>>

\* an allow-list with a bare token, a blocked token and a phrase
AllowList == <<"ls", "sudo", "curl https://safe.com">>

Policies ==
    { Policy(FALSE, <<>>, <<>>),
      Policy(FALSE, AllowList, <<"safe.com">>),
      Policy(TRUE, <<>>, <<"safe.com">>),
      Policy(TRUE, BlankAllowList, <<>>),
      Policy(TRUE, AllowList, <<"safe.com">>),
      Policy(TRUE, AllowList, <<>>) }

\* the LLM auditors: none, a failing one, and ones that answer with a risk
\* score in or out of [0, 10]
LlmAuditors ==
    { LlmAbsent, LlmRaises, LlmAnswers(TRUE, 2), LlmAnswers(FALSE, 7),
      LlmAnswers(FALSE, 0), LlmAnswers(TRUE, 11) }

\* the pieces commands are made of
Fragments ==
    { "ls ", " ", "sudo ", "/etc/", "pip ", "curl ", "https://safe.com/",
      "base64 -d|sh", "cle´" }

RECURSIVE CommandsOf(_)
CommandsOf(n) ==
    IF n = 0 THEN {""}
    ELSE LET shorter == CommandsOf(n - 1)
         IN  shorter \cup {c \o f : c \in shorter, f \in Fragments}

Commands == CommandsOf(MaxFrags)

\* the characters of the strings given to _normalize_command alone
RawChars == {"e", COMBINING, ZWSP, BACKSLASH, " ", "\n", "\r"}

RECURSIVE RawStringsOf(_)
RawStringsOf(n) ==
    IF n = 0 THEN {""}
    ELSE LET shorter == RawStringsOf(n - 1)
         IN  shorter \cup {s \o c : s \in shorter, c \in RawChars}

RawStrings == RawStringsOf(MaxRawLen)

\* s with n backslashes inserted after its first i characters
RECURSIVE Backslashes(_)
Backslashes(n) == IF n = 0 THEN "" ELSE BACKSLASH \o Backslashes(n - 1)

InsertBackslashes(s, i, n) == SubSeq(s, 1, i) \o Backslashes(n) \o From(s, i + 1)

\* the blocked strings, blocked tools and network tools of a config
BlockedNames(cfg) ==
    {cfg.blocked_strings[i] : i \in 1..Len(cfg.blocked_strings)}
    \cup {cfg.blocked_tools[i] : i \in 1..Len(cfg.blocked_tools)}
    \cup {cfg.blocked_network_tools[i] : i \in 1..Len(cfg.blocked_network_tools)}

\* the commands obtained from c by inserting 1..MaxBackslashes backslashes
\* between two characters of an occurrence of a blocked name b in c
Escapings(cfg, c) ==
    { InsertBackslashes(c, i + k - 1, n) :
        <<i, k, n>> \in
            { t \in (1..Len(c)) \X (1..Len(c)) \X (1..MaxBackslashes) :
                \E b \in BlockedNames(cfg) :
                    /\ t[2] < Len(b)
                    /\ t[1] + Len(b) - 1 <= Len(c)
                    /\ SubSeq(c, t[1], t[1] + Len(b) - 1) = b } }

----------------------------------------------------------------------------
(* The gateway around the auditor: SentinelRuntime (sentinel_main), the HTTP *)
(* server (sentinel_server.py) and the exec skill (sentinel_exec.py).        *)

\* os.environ of the server process
Env(auth_token, disable_auth) ==
    [SENTINEL_AUTH_TOKEN |-> auth_token, SENTINEL_DISABLE_AUTH |-> disable_auth]

NoEnv == Env("", "false")

\* a request: its endpoint, the command of its body, its X-Sentinel-Token
\* header ("" when absent), the workdir of an exec call ("" for None) and the
\* working directory of the process when it arrived
Request(endpoint, cmd, token, workdir, dir) ==
    [endpoint |-> endpoint, command |-> cmd, token |-> token, workdir |-> workdir,
     cwd |-> dir]

NoRequest == Request("", "", "", "", "")

\* the answer to a request: the HTTP status (0 outside HTTP), whether the
\* handler ended with an exception, and the body
Response(status, raised, body) == [status |-> status, raised |-> raised, body |-> body]

NoBody == [detail |-> ""]

NoResponse == Response(0, FALSE, NoBody)

\* what a handler did: its answer, the commands it had audited and the
\* commands it handed to the executor
Handled(resp, aud, exe) == [response |-> resp, audited |-> aud, executed |-> exe]

\* ExecutionResult: returncode is <<>> for null
ExecutionResult(stdout, stderr, returncode) ==
    [stdout |-> stdout, stderr |-> stderr, returncode |-> returncode]

NotExecuted == ExecutionResult("", "", <<>>)

\* what the executor reports: a run to completion, or a timeout
ExecOutcomes == {ExecutionResult("out", "", <<0>>), ExecutionResult("", "timeout", <<-1>>)}

\* the mapping run_intercepted_command returns
AuditResult(d, x) ==
    [allowed |-> d.allowed, risk_score |-> d.risk_score, reason |-> d.reason,
     stdout |-> x.stdout, stderr |-> x.stderr, returncode |-> x.returncode]

\* SentinelRuntime.run_intercepted_command after the audit call r: the
\* executor runs the original command iff the decision is allowed
Intercepted(r, cmd, outcome) ==
    IF r.raised
    THEN [raised |-> TRUE, result |-> AuditResult(NoDecision, NotExecuted), executed |-> <<>>]
    ELSE IF r.decision.allowed
         THEN [raised |-> FALSE, result |-> AuditResult(r.decision, outcome),
               executed |-> <<cmd>>]
    ELSE [raised |-> FALSE, result |-> AuditResult(r.decision, NotExecuted),
          executed |-> <<>>]

\* SentinelRuntime.run_intercepted_command(command)
run_intercepted_command(cfg, llm, cmd, outcome) ==
    Intercepted(audit(cfg, llm, cmd), cmd, outcome)

\* AuditDecision.to_dict
to_dict(d) == [allowed |-> d.allowed, risk_score |-> d.risk_score, reason |-> d.reason]

\* sentinel_server.health_check
health_check ==
    Handled(Response(200, FALSE, [status |-> "healthy", service |-> "sentinel"]), <<>>, <<>>)

\* HTTPException(status_code=503, ...)
NotInitialized == Response(503, FALSE, [detail |-> "Sentinel runtime not initialized"])

\* an exception that leaves a handler: the server answers 500
ServerError == Response(500, TRUE, [detail |-> "Internal Server Error"])

\* the body of lines 95-102
EmptyCommandBody == AuditResult(Reject("Empty command", 10), NotExecuted)

\* lines 105-113 of sentinel_server.audit_command, after the call r of
\* run_intercepted_command
AuditAnswer(r, cmd) ==
    IF r.raised THEN Handled(ServerError, <<cmd>>, <<>>)
    ELSE Handled(Response(200, FALSE, r.result), <<cmd>>, r.executed)

\* sentinel_server.audit_command with the test for an empty command placed
\* before the test of the runtime
server_audit_command_EmptyFirst(rt, cfg, llm, cmd, outcome) ==
    IF cmd = "" \/ Strip(cmd) = ""
    THEN Handled(Response(200, FALSE, EmptyCommandBody), <<>>, <<>>)
    ELSE IF ~rt THEN Handled(NotInitialized, <<>>, <<>>)
    ELSE AuditAnswer(run_intercepted_command(cfg, llm, cmd, outcome), cmd)

\* sentinel_server.audit_command, the handler of POST /audit
server_audit_command(rt, cfg, llm, cmd, outcome) ==
    IF ~rt THEN Handled(NotInitialized, <<>>, <<>>)
    ELSE IF cmd = "" \/ Strip(cmd) = ""
         THEN Handled(Response(200, FALSE, EmptyCommandBody), <<>>, <<>>)
    ELSE AuditAnswer(run_intercepted_command(cfg, llm, cmd, outcome), cmd)

\* lines 126-127 of sentinel_server.audit_only, after the call r of audit
AuditOnlyAnswer(r, cmd) ==
    IF r.raised THEN Handled(ServerError, <<cmd>>, <<>>)
    ELSE Handled(Response(200, FALSE, to_dict(r.decision)), <<cmd>>, <<>>)

\* sentinel_server.audit_only that goes through run_intercepted_command
audit_only_Intercepted(rt, cfg, llm, cmd) ==
    IF ~rt THEN Handled(NotInitialized, <<>>, <<>>)
    ELSE AuditAnswer(run_intercepted_command(cfg, llm, cmd, NotExecuted), cmd)

\* sentinel_server.audit_only, the handler of POST /audit-only
audit_only(rt, cfg, llm, cmd) ==
    IF ~rt THEN Handled(NotInitialized, <<>>, <<>>)
    ELSE AuditOnlyAnswer(audit(cfg, llm, cmd), cmd)

\* the directories of the file system
Home == "/home/agent"

Dirs == {Home, "/tmp"}

\* os.path.expanduser
expanduser(path) ==
    IF path = "~" THEN Home
    ELSE IF StartsWith(path, "~/") THEN Home \o From(path, 2)
    ELSE path

\* lines 75-88 of SentinelExecHandler.execute with the execution fields copied
\* for every result
SkillResponse_AlwaysFields(result) ==
    [status |-> IF result.allowed THEN "allowed" ELSE "denied",
     risk_score |-> result.risk_score, reason |-> result.reason,
     returncode |-> result.returncode, stdout |-> result.stdout,
     stderr |-> result.stderr]

\* lines 75-88 of SentinelExecHandler.execute
SkillResponse(result) ==
    IF result.allowed
    THEN [status |-> "allowed", risk_score |-> result.risk_score, reason |-> result.reason,
          returncode |-> result.returncode, stdout |-> result.stdout,
          stderr |-> result.stderr]
    ELSE [status |-> "denied", risk_score |-> result.risk_score, reason |-> result.reason,
          error |-> "Command blocked: " \o result.reason]

\* lines 72-88 of SentinelExecHandler.execute, after the call r of
\* run_intercepted_command
SkillAnswer(r, cmd) ==
    IF r.raised THEN Handled(Response(0, TRUE, NoBody), <<cmd>>, <<>>)
    ELSE Handled(Response(0, FALSE, SkillResponse(r.result)), <<cmd>>, r.executed)

----------------------------------------------------------------------------
(* The approval store (sentinel_approvals.py) *)

\* the ids str(uuid.uuid4())[:8] yields
RequestIds == {"1f0a" \o Ch(Digits, i) \o "c3e" : i \in 1..MaxRequests}

\* the status a request is created with and the statuses it is resolved to
Statuses == {"pending", "approved", "rejected"}

\* PendingRequest, lines 6-12
PendingRequest(id, cmd, timestamp, rule_name, reason, status) ==
    [id |-> id, command |-> cmd, timestamp |-> timestamp, rule_name |-> rule_name,
     reason |-> reason, status |-> status]

\* what a call of the ApprovalManager did: the store after it and the value it
\* returned
Called(reqs, value) == [requests |-> reqs, returned |-> value]

\* ApprovalManager.create_request with req_id the id uuid4 gave
create_request(reqs, req_id, cmd, rule_name, reason, t) ==
    Called((req_id :> PendingRequest(req_id, cmd, t, rule_name, reason, "pending")) @@ reqs,
           req_id)

\* ApprovalManager.get_request: <<>> for None
get_request(reqs, req_id) == IF req_id \in DOMAIN reqs THEN <<reqs[req_id]>> ELSE <<>>

\* ApprovalManager.list_pending
list_pending(reqs) ==
    [k \in {j \in DOMAIN reqs : reqs[j].status = "pending"} |-> reqs[k]]

\* ApprovalManager.resolve_request
resolve_request(reqs, req_id, status) ==
    IF req_id \in DOMAIN reqs
    THEN Called([reqs EXCEPT ![req_id].status = status], TRUE)
    ELSE Called(reqs, FALSE)

\* ApprovalManager.cleanup_old_requests: pass
cleanup_old_requests(reqs, max_age_seconds) == reqs

\* the record of the last call: its name, the id it was given or gave, whether
\* it returned True, the ids of the mapping it returned and the store before it
LastCall(op, id, ok, ids, before) ==
    [op |-> op, id |-> id, ok |-> ok, ids |-> ids, before |-> before]

----------------------------------------------------------------------------
(* The audit calls *)

InitAuditor ==
    /\ config \in Policies
    /\ llm_auditor \in LlmAuditors
    /\ pc = "ready"
    /\ decision = NoDecision
    /\ llm_calls = <<>>
    /\ variant_pc = "ready"
    /\ variant_decision = NoDecision

NoVariant ==
    /\ variant_kind = "none"
    /\ variant = ""

NormIdle ==
    /\ raw = ""
    /\ norm_pc = "idle"
    /\ once = ""
    /\ twice = ""

\* no CommandAuditor
AuditorIdle ==
    /\ config = NoConfig
    /\ llm_auditor = LlmAbsent
    /\ command = ""
    /\ pc = "idle"
    /\ decision = NoDecision
    /\ llm_calls = <<>>
    /\ variant_pc = "idle"
    /\ variant_decision = NoDecision
    /\ variant_kind = "none"
    /\ variant = ""

\* no constitution kept, no concurrent exec calls, no approval store
OthersIdle ==
    /\ constitution = NoConstitution
    /\ calls = <<>>
    /\ requests = <<>>
    /\ resolved = <<>>
    /\ returned = <<>>
    /\ now = 0

\* no server and no exec skill around the auditor
GatewayIdle ==
    /\ runtime = FALSE
    /\ env = NoEnv
    /\ request = NoRequest
    /\ response = NoResponse
    /\ req_pc = "idle"
    /\ cwd = Home
    /\ original_cwd = ""
    /\ audited = <<>>
    /\ executed = <<>>
    /\ OthersIdle

\* A CommandAuditor after construction and the command it is about to audit.
Init ==
    /\ InitAuditor
    /\ command \in Commands
    /\ NoVariant
    /\ NormIdle
    /\ GatewayIdle

\* auditor.audit(command)
Audit ==
    /\ pc = "ready"
    /\ LET r == audit(config, llm_auditor, command)
       IN  /\ pc' = IF r.raised THEN "raised" ELSE "returned"
           /\ decision' = r.decision
           /\ llm_calls' = r.llm_calls
    /\ UNCHANGED <<config, llm_auditor, command, variant_kind, variant, variant_pc,
                   variant_decision>>
    /\ UNCHANGED normVars
    /\ UNCHANGED <<gatewayVars, otherVars>>

Next == Audit

Spec == Init /\ [][Next]_vars

----------------------------------------------------------------------------
(* Two audit calls of one auditor on related commands: a command in lower  *)
(* and in upper case, or a command and the same command with backslashes   *)
(* inserted into a blocked name.                                            *)

InitVariant ==
    /\ InitAuditor
    /\ llm_auditor \in {LlmAbsent, LlmAnswers(TRUE, 2)}
    /\ \E c \in Commands :
          \/ /\ variant_kind = "case"
             /\ command = Lower(c)
             /\ variant = Upper(c)
          \/ /\ variant_kind = "escaped"
             /\ command = c
             /\ variant \in Escapings(config, c)
    /\ NormIdle
    /\ GatewayIdle

\* the second call, auditor.audit(variant)
AuditVariant ==
    /\ pc # "ready"
    /\ variant_pc = "ready"
    /\ variant_kind # "none"
    /\ LET r == audit(config, llm_auditor, variant)
       IN  /\ variant_pc' = IF r.raised THEN "raised" ELSE "returned"
           /\ variant_decision' = r.decision
    /\ UNCHANGED <<config, llm_auditor, command, pc, decision, variant_kind, variant,
                   llm_calls>>
    /\ UNCHANGED normVars
    /\ UNCHANGED <<gatewayVars, otherVars>>

NextVariant == Audit \/ AuditVariant

SpecVariant == InitVariant /\ [][NextVariant]_vars

----------------------------------------------------------------------------
(* _normalize_command applied once and twice to a string *)

InitNormalize ==
    /\ config = Policy(FALSE, <<>>, <<>>)
    /\ llm_auditor = LlmAbsent
    /\ command = ""
    /\ pc = "idle"
    /\ decision = NoDecision
    /\ llm_calls = <<>>
    /\ variant_pc = "idle"
    /\ variant_decision = NoDecision
    /\ NoVariant
    /\ raw \in RawStrings
    /\ norm_pc = "raw"
    /\ once = ""
    /\ twice = ""
    /\ GatewayIdle

\* once = _normalize_command(raw)
NormalizeOnce ==
    /\ norm_pc = "raw"
    /\ once' = _normalize_command(raw)
    /\ norm_pc' = "once"
    /\ UNCHANGED <<raw, twice>>
    /\ UNCHANGED auditVars
    /\ UNCHANGED <<gatewayVars, otherVars>>

\* twice = _normalize_command(once)
NormalizeTwice ==
    /\ norm_pc = "once"
    /\ twice' = _normalize_command(once)
    /\ norm_pc' = "twice"
    /\ UNCHANGED <<raw, once>>
    /\ UNCHANGED auditVars
    /\ UNCHANGED <<gatewayVars, otherVars>>

NextNormalize == NormalizeOnce \/ NormalizeTwice

SpecNormalize == InitNormalize /\ [][NextNormalize]_vars

----------------------------------------------------------------------------
(* Audit calls on commands that exercise one rule of the hard-kill filter   *)
(* each: the network gate and its whitelist, the empty command, the blocked *)
(* tools and the base64-to-shell pattern.                                   *)

\* the hostnames of the urls given to the network gate
Hostnames ==
    { "example.com", "api.example.com", "x.api.example.com", "notexample.com",
      "notapi.example.com", "example.com.evil.com", "evil.com" }

\* the command that fetches from hostname h
Fetch(h) == "curl https://" \o h \o "/"

\* network-tool commands: without url, with a url without hostname, with a url
\* urlparse refuses, with one good and one bad url, with an unbalanced quote,
\* and commands where curl is not a whole word
NetworkCommands ==
    { "curl", "curl example.com", "curl https:///x", "curl http://[",
      "curl https://example.com/ https://evil.com/",
      "curl https://example.com/ http://[",
      "curl 'https://example.com/",
      "CURL https://example.com/",
      "curlx https://evil.com/", "my_curl https://evil.com/",
      "echo;curl https://evil.com/" }

\* commands whose normalized form is empty, and one that only looks empty
EmptyCommands == { "", " ", " \t\n", ZWSP, ZWSP \o " " \o ZWSP, "\\\n", "\\\r\n \\\n", "ls" }

\* commands with and without a token that names a blocked tool
ToolCommands ==
    { "pip install x", "/usr/bin/pip x", "echo PIP", "pipeline run", "echo /pip/",
      "python3.11 -c 1", "python3. x", "python2", "pythonx", "x/Python3",
      "'pip ' x", "echo 'a pip'", "pip 'x", "pip3 x", "npm i" }

\* commands with and without a base64 decode followed by a shell
Base64Commands ==
    { "base64 -d|sh", "base64 --decode x; bash", "base64 -d x && sh f",
      "base64 -d x & sh f", "base64 -d x &sh", "base64 -d|shx", "base64 -d | zsh",
      "base64 x|sh", "echo|sh", "base64 -d x" }

RuleCommands ==
    {Fetch(h) : h \in Hostnames} \cup NetworkCommands \cup EmptyCommands
    \cup ToolCommands \cup Base64Commands

\* whitelists: empty, one entry, an entry in upper case, an entry with
\* surrounding whitespace, a subdomain entry, two entries
Whitelists ==
    { <<>>, <<"example.com">>, <<"Example.COM">>, <<" example.com ">>,
      <<"api.example.com">>, <<"evil.com", "api.example.com">> }

\* a HardKillConfig for the rule commands
RulePolicy(lockdown_mode, whitelisted_domains) ==
    [blocked_strings |-> <<"sudo">>,
     blocked_paths |-> <<"/etc/">>,
     blocked_tools |-> <<"Python", "pip", " npm ">>,
     blocked_network_tools |-> <<"Curl">>,
     whitelisted_domains |-> whitelisted_domains,
     lockdown_mode |-> lockdown_mode,
     allowed_commands |-> <<"ls", "curl https://example.com">>]

RulePolicies == {RulePolicy(l, w) : l \in BOOLEAN, w \in Whitelists}

InitRules ==
    /\ config \in RulePolicies
    /\ llm_auditor \in {LlmAbsent, LlmAnswers(TRUE, 2)}
    /\ command \in RuleCommands
    /\ pc = "ready"
    /\ decision = NoDecision
    /\ llm_calls = <<>>
    /\ variant_pc = "ready"
    /\ variant_decision = NoDecision
    /\ NoVariant
    /\ NormIdle
    /\ GatewayIdle

SpecRules == InitRules /\ [][Next]_vars

----------------------------------------------------------------------------
(* Requests to the server and calls of the exec skill, one at a time.       *)

GatewayCommands == {"", " ", ZWSP, "ls", "sudo ls", "curl http://["}

\* X-Sentinel-Token: absent, the configured token, another token
Headers == {"", "test-token", "wrong"}

\* no token configured, a token configured, a token configured and auth disabled
Envs == {Env("", "false"), Env("test-token", "false"), Env("test-token", "true")}

\* workdir: None, a directory, a directory below the home, no directory
Workdirs == {"", "/tmp", "~", "/missing"}

InitGateway ==
    /\ config \in {Policy(FALSE, <<>>, <<>>), Policy(TRUE, AllowList, <<>>)}
    /\ llm_auditor \in {LlmAbsent, LlmAnswers(TRUE, 2), LlmRaises}
    /\ command = ""
    /\ pc = "idle"
    /\ decision = NoDecision
    /\ llm_calls = <<>>
    /\ variant_pc = "idle"
    /\ variant_decision = NoDecision
    /\ NoVariant
    /\ NormIdle
    /\ runtime = FALSE
    /\ env \in Envs
    /\ request = NoRequest
    /\ response = NoResponse
    /\ req_pc = "idle"
    /\ cwd \in Dirs
    /\ original_cwd = ""
    /\ audited = <<>>
    /\ executed = <<>>
    /\ OthersIdle

\* no request is being served
Quiet == req_pc \in {"idle", "done"}

\* sentinel_server.startup_event; the exchange seen before it is forgotten
Startup ==
    /\ Quiet
    /\ ~runtime
    /\ runtime' = TRUE
    /\ request' = NoRequest
    /\ response' = NoResponse
    /\ req_pc' = "idle"
    /\ audited' = <<>>
    /\ executed' = <<>>
    /\ UNCHANGED <<env, cwd, original_cwd>>
    /\ UNCHANGED <<auditVars, normVars, otherVars>>

\* the server answers the request with what the handler did
Serve(req, h) ==
    /\ request' = req
    /\ response' = h.response
    /\ audited' = h.audited
    /\ executed' = h.executed
    /\ req_pc' = "done"
    /\ UNCHANGED <<runtime, env, cwd, original_cwd>>
    /\ UNCHANGED <<auditVars, normVars, otherVars>>

\* GET /health
Health ==
    /\ Quiet
    /\ \E token \in Headers :
          Serve(Request("GET /health", "", token, "", cwd), health_check)

\* POST /audit
PostAudit ==
    /\ Quiet
    /\ \E cmd \in GatewayCommands, token \in Headers, outcome \in ExecOutcomes :
          Serve(Request("POST /audit", cmd, token, "", cwd),
                server_audit_command(runtime, config, llm_auditor, cmd, outcome))

\* POST /audit-only
PostAuditOnly ==
    /\ Quiet
    /\ \E cmd \in GatewayCommands, token \in Headers :
          Serve(Request("POST /audit-only", cmd, token, "", cwd),
                audit_only(runtime, config, llm_auditor, cmd))

\* SentinelExecHandler.execute(command, workdir), lines 66-69: the call
\* starts; os.chdir raises when the workdir is no directory
ExecEnter ==
    /\ Quiet
    /\ \E cmd \in GatewayCommands, workdir \in Workdirs :
          /\ request' = Request("exec", cmd, "", workdir, cwd)
          /\ original_cwd' = IF workdir # "" THEN cwd ELSE ""
          /\ IF workdir # "" /\ expanduser(workdir) \notin Dirs
             THEN /\ response' = Response(0, TRUE, NoBody)
                  /\ req_pc' = "done"
                  /\ cwd' = cwd
             ELSE /\ response' = NoResponse
                  /\ req_pc' = "entered"
                  /\ cwd' = IF workdir # "" THEN expanduser(workdir) ELSE cwd
    /\ audited' = <<>>
    /\ executed' = <<>>
    /\ UNCHANGED <<runtime, env>>
    /\ UNCHANGED <<auditVars, normVars, otherVars>>

\* lines 71-88: the command is audited and, when allowed, executed
ExecRun ==
    /\ req_pc = "entered"
    /\ \E outcome \in ExecOutcomes :
          LET h == SkillAnswer(run_intercepted_command(config, llm_auditor,
                                                       request.command, outcome),
                               request.command)
          IN  /\ response' = h.response
              /\ audited' = h.audited
              /\ executed' = h.executed
    /\ req_pc' = "ran"
    /\ UNCHANGED <<runtime, env, request, cwd, original_cwd>>
    /\ UNCHANGED <<auditVars, normVars, otherVars>>

\* lines 90-92: the finally clause, then the call returns or raises
ExecExit ==
    /\ req_pc = "ran"
    /\ cwd' = IF original_cwd # "" THEN original_cwd ELSE cwd
    /\ req_pc' = "done"
    /\ UNCHANGED <<runtime, env, request, response, original_cwd, audited, executed>>
    /\ UNCHANGED <<auditVars, normVars, otherVars>>

NextGateway ==
    Startup \/ Health \/ PostAudit \/ PostAuditOnly \/ ExecEnter \/ ExecRun \/ ExecExit

SpecGateway == InitGateway /\ [][NextGateway]_vars

----------------------------------------------------------------------------
(* The construction of a CommandAuditor from a constitution *)

\* the values of hard_kill.blocked_strings: absent, null, a scalar string, an
\* empty list, a list of a string and a number, a number
BlockedStringValues ==
    { Missing, None, Str("sudo"), List(<<>>), List(<<Str("rm"), Number(12)>>),
      Number(5) }

HardKillSections ==
    { NoSection, NullSection }
    \cup { Section("mapping", [NoKeys EXCEPT !["blocked_strings"] = s,
                                             !["blocked_paths"] = p,
                                             !["blocked_tools"] = t]) :
             s \in BlockedStringValues,
             p \in {Missing, Str("/etc/")},
             t \in {Missing, List(<<Str("pip")>>)} }

NetworkLockSections ==
    { NoSection }
    \cup { Section("mapping", [NoKeys EXCEPT !["blocked_tools"] = t,
                                             !["whitelisted_domains"] = w]) :
             t \in {Missing, Str("curl")},
             w \in {Missing, None, List(<<Str("a.com")>>)} }

ExecutionModeSections ==
    { NoSection }
    \cup { Section("mapping", [NoKeys EXCEPT !["lockdown_mode"] = l,
                                             !["allowed_commands"] = a]) :
             l \in {Missing, Bool(TRUE), Bool(FALSE), Str("false")},
             a \in {Missing, Str("ls")} }

\* top-level keys next to the three sections
TopLevelKeys ==
    { [NoKeys EXCEPT !["lockdown_mode"] = l, !["allowed_commands"] = a,
                     !["whitelisted_domains"] = w, !["blocked_strings"] = s] :
        l \in {Missing, Bool(TRUE)},
        a \in {Missing, List(<<Str("ls")>>)},
        w \in {Missing, Str("x.com")},
        s \in {Missing, List(<<Str("x")>>)} }

Constitutions ==
    { Constitution(h, n, e, t) :
        h \in HardKillSections, n \in NetworkLockSections,
        e \in ExecutionModeSections, t \in TopLevelKeys }

InitConfig ==
    /\ constitution \in Constitutions
    /\ config = NoConfig
    /\ llm_auditor = LlmAbsent
    /\ command = ""
    /\ pc = "new"
    /\ decision = NoDecision
    /\ llm_calls = <<>>
    /\ variant_pc = "idle"
    /\ variant_decision = NoDecision
    /\ NoVariant
    /\ NormIdle
    /\ runtime = FALSE
    /\ env = NoEnv
    /\ request = NoRequest
    /\ response = NoResponse
    /\ req_pc = "idle"
    /\ cwd = Home
    /\ original_cwd = ""
    /\ audited = <<>>
    /\ executed = <<>>
    /\ calls = <<>>
    /\ requests = <<>>
    /\ resolved = <<>>
    /\ returned = <<>>
    /\ now = 0

\* CommandAuditor.__init__, lines 27-29
Construct ==
    /\ pc = "new"
    /\ LET r == _load_config(constitution)
       IN  /\ config' = r.config
           /\ pc' = IF r.raised THEN "raised" ELSE "ready"
    /\ UNCHANGED <<llm_auditor, command, decision, variant_kind, variant, variant_pc,
                   variant_decision, llm_calls>>
    /\ UNCHANGED <<normVars, gatewayVars, otherVars>>

NextConfig == Construct

SpecConfig == InitConfig /\ [][NextConfig]_vars

----------------------------------------------------------------------------
(* Audit calls on commands that exercise the lockdown allow-list *)

\* allow-lists: empty; a bare token and a phrase; a blank entry and entries
\* that normalization changes
LockdownAllowLists ==
    { <<>>, <<"ls", "git status">>, <<" ", "Echo", "GIT  status">> }

LockdownPolicies ==
    { HardKillConfig(<<>>, <<>>, <<>>, <<>>, <<>>, l, a) :
        l \in BOOLEAN, a \in LockdownAllowLists }

\* commands that equal an entry, start with one, name one as first token or
\* as the basename of the first token, with and without quotes
LockdownCommands ==
    { "ls", "ls -l", "lsx", "/bin/ls -l", "'ls' -l", "LS", "x ls",
      "git status", "git statusx", "git status -s", "git  status",
      "\"git status\" -s", "'/bin/git status' x", "git", "echo hi", "bin/echo",
      "'ls", "'git status", "\"\" x" }

InitLockdown ==
    /\ config \in LockdownPolicies
    /\ llm_auditor \in {LlmAbsent, LlmAnswers(TRUE, 2)}
    /\ command \in LockdownCommands
    /\ pc = "ready"
    /\ decision = NoDecision
    /\ llm_calls = <<>>
    /\ variant_pc = "ready"
    /\ variant_decision = NoDecision
    /\ NoVariant
    /\ NormIdle
    /\ GatewayIdle

SpecLockdown == InitLockdown /\ [][Next]_vars

----------------------------------------------------------------------------
(* Audit calls on network commands under the default blocked lists *)

\* network-tool commands whose urls are tokens, parts of tokens, in
\* unbalanced quotes, or changed by normalization
UrlCommands ==
    { "curl", "curl -o f", "curl https://example.com/", "CURL https://EXAMPLE.com/",
      "curl https://evil.com/", "wget https://evil.com/", "echo https://evil.com/",
      "curlx https://evil.com/",
      "curl 'https://example.com/", "curl \"https://example.com/",
      "curl 'https://example.com/' https://evil.com/",
      "curl --url=https://example.com/", "curl --url=https://evil.com/",
      "curl https://example.com/ --url=https://evil.com/",
      "curl x=https://evil.com/ https://example.com/",
      "curl --url=https:/\\/example.com/",
      "curl --url=https://exam" \o ZWSP \o "ple.com/",
      "curl http://[", "sudo curl https://example.com/" }

NetworkPolicies ==
    { HardKillConfig(DefaultBlockedStrings, DefaultBlockedPaths, DefaultBlockedTools,
                     DefaultNetworkTools, w, l, a) :
        w \in {<<>>, <<"example.com">>},
        l \in BOOLEAN,
        a \in {<<>>, <<"curl", "wget">>} }

InitNetwork ==
    /\ config \in NetworkPolicies
    /\ llm_auditor \in {LlmAbsent, LlmAnswers(TRUE, 2), LlmRaises}
    /\ command \in UrlCommands
    /\ pc = "ready"
    /\ decision = NoDecision
    /\ llm_calls = <<>>
    /\ variant_pc = "ready"
    /\ variant_decision = NoDecision
    /\ NoVariant
    /\ NormIdle
    /\ GatewayIdle

SpecNetwork == InitNetwork /\ [][Next]_vars

----------------------------------------------------------------------------
(* Properties of CommandAuditor.audit *)

\* what _hard_kill_filter is given by audit
Normalized == _normalize_command(command)

\* an entry of entries is contained in the lowered command
SomeContained(entries, lowered_command) ==
    \E j \in 1..Len(entries) : Contains(lowered_command, Lower(entries[j]))

\* the decision rejects with risk 10 and names, after the prefix, the first
\* entry of entries in configuration order that the lowered command contains
NamesFirst(entries, prefix, lowered_command) ==
    \E j \in 1..Len(entries) :
        /\ Contains(lowered_command, Lower(entries[j]))
        /\ \A k \in 1..(j - 1) : ~Contains(lowered_command, Lower(entries[k]))
        /\ decision = Reject(prefix \o entries[j], 10)

\* the seven rules of the hard-kill filter, each on its own, on the normalized
\* command n
EmptyFires(n) == n = ""
LockdownFires(n) == config.lockdown_mode /\ ~_is_allowed_in_lockdown(config, n)
BlockedStringFires(n) == SomeContained(config.blocked_strings, Lower(n))
BlockedPathFires(n) == SomeContained(config.blocked_paths, Lower(n))
BlockedToolFires(n) == _match_blocked_tool(config, n) # <<>>
Base64Fires(n) == _contains_base64_shell_exec(Lower(n))
NetworkFires(n) == NetworkGate(config, n) # <<>>

\* every entry of the allow-list normalizes to the empty string (none, when the
\* list is empty)
AllowListBlank ==
    \A i \in 1..Len(config.allowed_commands) :
        _normalize_command(config.allowed_commands[i]) = ""

\* C1: with lockdown_mode false, allowed_commands is never consulted: audit
\* never answers "Command explicitly allowed by policy.", and its decision is
\* the one it returns under every policy that differs only in allowed_commands.
C1_AllowListNotConsulted ==
    (pc = "returned" /\ ~config.lockdown_mode) =>
        /\ decision.reason # ExplicitAllowReason
        /\ \A p \in Policies :
              (p = [config EXCEPT !.allowed_commands = p.allowed_commands])
                  => audit(p, llm_auditor, command) = Returned(decision)

\* C2: audit answers allowed with "Command explicitly allowed by policy." only
\* if none of the blocked-string, blocked-path, blocked-tool, base64-to-shell
\* and network rules fires on the normalized command.
C2_AllowListNeverOverrides ==
    (pc = "returned" /\ decision.allowed /\ decision.reason = ExplicitAllowReason) =>
        LET n == Normalized
        IN  /\ ~BlockedStringFires(n)
            /\ ~BlockedPathFires(n)
            /\ ~BlockedToolFires(n)
            /\ ~Base64Fires(n)
            /\ ~NetworkFires(n)

\* an explicit allow of a command that invokes a network tool, under lockdown
C2_Witness ==
    /\ pc = "returned"
    /\ config.lockdown_mode
    /\ decision = Decision(TRUE, 0, ExplicitAllowReason)
    /\ _contains_network_tool(config, Lower(Normalized))

\* C3: the rules are evaluated in the order empty, lockdown, blocked string,
\* blocked path, blocked tool, base64-to-shell, network; the first rule that
\* fires gives the reason, whatever later rules would say; the blocked string
\* or path named is the first matching entry in configuration order; the risk
\* score of each such rejection is 10.
C3_RuleOrder ==
    pc = "returned" =>
        LET n == Normalized
            l == Lower(n)
            empty == EmptyFires(n)
            lockdown == LockdownFires(n)
            string == BlockedStringFires(n)
            path == BlockedPathFires(n)
            tool == BlockedToolFires(n)
            base64 == Base64Fires(n)
            network == NetworkFires(n)
        IN  /\ empty => decision = Reject(EmptyReason, 10)
            /\ (~empty /\ lockdown) => decision = Reject(LockdownReason, 10)
            /\ (~empty /\ ~lockdown /\ string)
                  => NamesFirst(config.blocked_strings, BlockedTokenPrefix, l)
            /\ (~empty /\ ~lockdown /\ ~string /\ path)
                  => NamesFirst(config.blocked_paths, BlockedPathPrefix, l)
            /\ (~empty /\ ~lockdown /\ ~string /\ ~path /\ tool)
                  => decision = Reject(BlockedToolPrefix
                                           \o _match_blocked_tool(config, n)[1], 10)
            /\ (~empty /\ ~lockdown /\ ~string /\ ~path /\ ~tool /\ base64)
                  => decision = Reject(Base64Reason, 10)
            /\ (~empty /\ ~lockdown /\ ~string /\ ~path /\ ~tool /\ ~base64 /\ network)
                  => /\ decision = NetworkGate(config, n)[1]
                     /\ decision.risk_score = 10
                     /\ ~decision.allowed

\* two entries of blocked_strings and a blocked path match one command, and
\* the rejection names the first blocked string
C3_Witness ==
    /\ pc = "returned"
    /\ ~EmptyFires(Normalized)
    /\ ~LockdownFires(Normalized)
    /\ Contains(Lower(Normalized), Lower(config.blocked_strings[1]))
    /\ Contains(Lower(Normalized), Lower(config.blocked_strings[2]))
    /\ BlockedPathFires(Normalized)
    /\ decision = Reject(BlockedTokenPrefix \o config.blocked_strings[1], 10)

\* C4: with lockdown_mode true and an allow-list that is empty or whose entries
\* all normalize to the empty string, audit returns, and returns allowed =
\* false, for every command and every LLM auditor.
C4_LockdownSafety ==
    (pc # "ready" /\ config.lockdown_mode /\ AllowListBlank) =>
        /\ pc = "returned"
        /\ ~decision.allowed

\* a command that passes every other rule is rejected under lockdown with an
\* allow-list of blank entries, though the LLM auditor would accept it
C4_Witness ==
    /\ pc = "returned"
    /\ config.lockdown_mode
    /\ config.allowed_commands # <<>>
    /\ AllowListBlank
    /\ llm_auditor.present /\ llm_auditor.allowed /\ ~llm_auditor.raises
    /\ ~EmptyFires(Normalized)
    /\ ~BlockedStringFires(Normalized)
    /\ ~BlockedPathFires(Normalized)
    /\ ~BlockedToolFires(Normalized)
    /\ ~Base64Fires(Normalized)
    /\ ~NetworkFires(Normalized)
    /\ decision = Reject(LockdownReason, 10)

\* C5: without an LLM auditor, a command on which no deterministic rule fires
\* (no hard-kill rule, and no allow-list acceptance under lockdown) is rejected
\* with risk 9 and "LLM auditor unavailable; fail-closed policy applied.", and
\* audit does not raise.
C5_FailClosedWithoutLlm ==
    (/\ pc # "ready"
     /\ ~llm_auditor.present
     /\ _hard_kill_filter(config, Normalized) = <<>>
     /\ ~(config.lockdown_mode /\ _is_allowed_in_lockdown(config, Normalized))) =>
        /\ pc = "returned"
        /\ decision = Reject(LlmUnavailableReason, 9)

\* C6: when the LLM auditor fails on a command that passed the deterministic
\* layer, audit returns a decision with allowed = false and does not raise.
C6_FailClosedOnLlmFault ==
    (/\ pc # "ready"
     /\ llm_auditor.present
     /\ llm_auditor.raises
     /\ _hard_kill_filter(config, Normalized) = <<>>) =>
        /\ pc = "returned"
        /\ ~decision.allowed

\* C7: every decision audit returns has a risk score in 0..10, and at least 1
\* when allowed = false, the decisions of the LLM auditor included.
C7_RiskScoreRange ==
    pc = "returned" =>
        /\ decision.risk_score \in 0..10
        /\ ~decision.allowed => decision.risk_score >= 1

\* C8: _normalize_command is idempotent.
C8_NormalizeIdempotent ==
    norm_pc = "twice" => twice = once

\* C9: backslashes inserted between the characters of a blocked string, blocked
\* tool or network tool inside a command change neither allowed nor the reason.
C9_EscapeInvariance ==
    (variant_kind = "escaped" /\ pc = "returned" /\ variant_pc = "returned") =>
        /\ variant_decision.allowed = decision.allowed
        /\ variant_decision.reason = decision.reason

\* C10: a command in upper case and in lower case get the same allowed.
C10_CaseInvariance ==
    (variant_kind = "case" /\ pc = "returned" /\ variant_pc = "returned") =>
        variant_decision.allowed = decision.allowed

----------------------------------------------------------------------------
(* Properties of the rules of the hard-kill filter, on the rule commands *)

\* the call returned the decision of a layer after the hard-kill filter
PassedFilter ==
    /\ pc = "returned"
    /\ decision.reason \in {ExplicitAllowReason, LlmUnavailableReason, LlmReason}

\* the call returned the rejection of the empty, lockdown, blocked-string or
\* blocked-path rule
RejectedBeforeTools ==
    /\ pc = "returned"
    /\ \/ decision.reason \in {EmptyReason, LockdownReason}
       \/ StartsWith(decision.reason, BlockedTokenPrefix)
       \/ StartsWith(decision.reason, BlockedPathPrefix)

\* the call returned the rejection of the blocked-tool rule
RejectedByTool ==
    /\ pc = "returned"
    /\ \E i \in 1..Len(config.blocked_tools) :
          decision = Reject(BlockedToolPrefix \o config.blocked_tools[i], 10)

\* hostname h equals entry a or ends with "." and a
MatchesEntry(h, a) == h = a \/ EndsWith(h, "." \o a)

\* C11 as stated.  Domain whitelist matching: hostname h is whitelisted iff for
\* some entry a of whitelisted_domains, lowercased, h = a or h ends with
\* "." + a.  Checked on the commands "curl https://h/" that reach the network
\* gate: the gate rejects h as not whitelisted iff no lowercased entry matches.
C11_WhitelistLowercasedEntries ==
    \A h \in Hostnames :
        (pc = "returned" /\ command = Fetch(h) /\ decision.reason # LockdownReason)
        => ( decision.reason = NotWhitelistedPrefix \o h
             <=> ~\E i \in 1..Len(config.whitelisted_domains) :
                     MatchesEntry(h, Lower(config.whitelisted_domains[i])) )

\* C11 amended.  Domain whitelist matching: hostname h is whitelisted iff for
\* some entry a of whitelisted_domains, lowercased and stripped of surrounding
\* whitespace, h = a or h ends with "." + a; every subdomain at any depth of
\* an entry passes, and notexample.com against example.com does not.
C11_WhitelistMatching ==
    \A h \in Hostnames :
        (pc = "returned" /\ command = Fetch(h) /\ decision.reason # LockdownReason)
        => ( decision.reason = NotWhitelistedPrefix \o h
             <=> ~\E i \in 1..Len(config.whitelisted_domains) :
                     MatchesEntry(h, Strip(Lower(config.whitelisted_domains[i]))) )

\* a subdomain two levels below a whitelisted entry has passed the gate
C11_Witness ==
    /\ command = Fetch("x.api.example.com")
    /\ config.whitelisted_domains = <<"evil.com", "api.example.com">>
    /\ PassedFilter

\* urlparse gives the url a hostname
HasHostname(url) == ~UrlparseRaises(url) /\ _extract_domain(url) # ""

\* the url has a hostname and the hostname is whitelisted
GoodUrl(url) == HasHostname(url) /\ _is_whitelisted_domain(config, _extract_domain(url))

\* C12.  Network gate: whenever the normalized command contains an entry of
\* blocked_network_tools as a whole word and the hard-kill filter does not
\* reject, at least one URL was extracted and every extracted URL has a
\* parseable hostname that is whitelisted; a network-tool command with no
\* extracted URL, an extracted URL without hostname, or an extracted URL whose
\* hostname is not whitelisted is rejected with risk 10.
C12_NetworkGate ==
    LET n == Normalized
        urls == _extract_urls(n)
        allGood == \A i \in 1..Len(urls) : GoodUrl(urls[i])
    IN  (pc # "ready" /\ _contains_network_tool(config, Lower(n)))
        => /\ PassedFilter => (urls # <<>> /\ allGood)
           /\ (urls = <<>> \/ ~allGood)
              => (pc = "returned" /\ ~decision.allowed /\ decision.risk_score = 10)

\* the token names the blocked tool, by the basename of the lowercased token
\* and the lowercased entry
TokenNamesTool(token, blocked_tool) ==
    LET basename == Basename(token)
    IN  \/ basename = blocked_tool
        \/ /\ blocked_tool = "python"
           /\ StartsWith(basename, "python")
           /\ basename = "python" \/ IsVersion(From(basename, 7))

ShellAfterSeparator(s) ==
    \E i \in 1..Len(s) :
        LET rest == LStrip(From(s, i + 1))
            Word(w) == StartsWith(rest, w) /\ ~IsWordChar(Ch(rest, Len(w) + 1))
        IN  Ch(s, i) \in {"|", "&", ";"} /\ (Word("bash") \/ Word("sh"))

\* C15.  Base64-to-shell rule: if no earlier rule fires, a normalized command
\* (lowercased) that contains "base64 -d" or "base64 --decode" and also bash
\* or sh as a word right after (optional whitespace after) one of the
\* separators "|", "&", ";" is rejected with the reason of the base64-to-shell
\* rule; this includes a single "&".
C15_Base64ToShell ==
    LET l == Lower(Normalized)
    IN  ( /\ pc # "ready"
          /\ ~RejectedBeforeTools
          /\ ~RejectedByTool
          /\ Contains(l, "base64 -d") \/ Contains(l, "base64 --decode")
          /\ ShellAfterSeparator(l) )
        => (pc = "returned" /\ decision = Reject(Base64Reason, 10))

----------------------------------------------------------------------------
(* Properties of the server and of the exec skill *)

PostEndpoints == {"POST /audit", "POST /audit-only"}

\* the request has been answered
Answered == req_pc = "done" /\ request # NoRequest

\* C13.  Any command whose normalized form is empty (empty string, whitespace
\* only, zero-width spaces only) is rejected with the reason "Empty command is
\* rejected under fail-closed policy." and risk_score 10, under every policy
\* and without consulting the LLM auditor: on POST /audit and POST /audit-only
\* of an initialized server, and on an exec call that returns.
C13_EmptyCommandRejected ==
    ( /\ Answered
      /\ _normalize_command(request.command) = ""
      /\ \/ request.endpoint \in PostEndpoints /\ response.status # 503
         \/ request.endpoint = "exec" /\ ~response.raised )
    => /\ ~response.raised
       /\ response.body.reason = EmptyReason
       /\ response.body.risk_score = 10
       /\ IF request.endpoint = "exec" THEN response.body.status = "denied"
          ELSE ~response.body.allowed

\* C16.  Authentication: when an auth token is configured and auth is not
\* disabled, every POST to /audit or /audit-only of an initialized server
\* without a matching X-Sentinel-Token header is answered 401 and the command
\* is neither audited nor executed; /health is answered without a token.
C16_TokenRequired ==
    /\ ( /\ Answered
         /\ runtime
         /\ request.endpoint \in PostEndpoints
         /\ env.SENTINEL_AUTH_TOKEN # ""
         /\ env.SENTINEL_DISABLE_AUTH # "true"
         /\ request.token # env.SENTINEL_AUTH_TOKEN )
       => (response.status = 401 /\ audited = <<>> /\ executed = <<>>)
    /\ (Answered /\ request.endpoint = "GET /health") => response.status = 200

\* C17.  Once the runtime is initialized, POST /audit with a well-formed body
\* always answers 200 with a structured Decision: a failure raised while
\* auditing or executing the command is never propagated as an HTTP failure.
C17_AuditAlwaysAnswers ==
    (Answered /\ runtime /\ request.endpoint = "POST /audit")
    => /\ response.status = 200
       /\ ~response.raised
       /\ response.body.allowed \in BOOLEAN

\* C18.  While the runtime is not initialized, every POST to /audit and
\* /audit-only answers 503, even for an empty command, and nothing is audited
\* or executed; GET /health answers 200 with status healthy and service
\* sentinel in every server state.
C18_NotInitialized ==
    /\ (Answered /\ ~runtime /\ request.endpoint \in PostEndpoints)
       => (response.status = 503 /\ audited = <<>> /\ executed = <<>>)
    /\ (Answered /\ request.endpoint = "GET /health")
       => /\ response = Response(200, FALSE, [status |-> "healthy", service |-> "sentinel"])
          /\ audited = <<>>
          /\ executed = <<>>

\* an empty command was posted to /audit before the start of the runtime
C18_Witness ==
    /\ Answered
    /\ ~runtime
    /\ request.endpoint = "POST /audit"
    /\ request.command = ""
    /\ response.status = 503

\* the request went through an audit-then-execute path and was answered with
\* a Decision that allows the command
AnsweredAllowed ==
    /\ ~response.raised
    /\ \/ /\ request.endpoint = "POST /audit"
          /\ response.status = 200
          /\ response.body.allowed
       \/ /\ request.endpoint = "exec"
          /\ response # NoResponse
          /\ response.body.status = "allowed"

C20_WorkdirRestored ==
    (Answered /\ request.endpoint = "exec" /\ request.workdir # "")
    => (cwd = request.cwd /\ ~response.raised)

----------------------------------------------------------------------------
(* Concurrent calls of SentinelExecHandler.execute in one process: threads  *)
(* interleave between the statements of lines 66-92, and the working        *)
(* directory is the one of the process.                                      *)

Callers == 1..MaxCalls

\* one call of execute: its position, its arguments, its local original_cwd
\* ("" for None) and the directory its command ran in (<<>> when none ran)
Call(call_pc, cmd, workdir, orig, ran_in) ==
    [pc |-> call_pc, command |-> cmd, workdir |-> workdir, original_cwd |-> orig,
     ran_in |-> ran_in]

InitConcurrent ==
    /\ config = Policy(FALSE, <<>>, <<>>)
    /\ llm_auditor = LlmAnswers(TRUE, 2)
    /\ command = ""
    /\ pc = "idle"
    /\ decision = NoDecision
    /\ llm_calls = <<>>
    /\ variant_pc = "idle"
    /\ variant_decision = NoDecision
    /\ NoVariant
    /\ NormIdle
    /\ runtime = TRUE
    /\ env = NoEnv
    /\ cwd \in Dirs
    /\ request = Request("exec", "", "", "", cwd)
    /\ response = NoResponse
    /\ req_pc = "idle"
    /\ original_cwd = ""
    /\ audited = <<>>
    /\ executed = <<>>
    /\ constitution = NoConstitution
    /\ calls \in [Callers -> {Call("called", c, w, "", <<>>) :
                                c \in {"ls", "sudo ls"}, w \in {"", "/tmp", "~"}}]
    /\ requests = <<>>
    /\ resolved = <<>>
    /\ returned = <<>>
    /\ now = 0

\* what a step of a concurrent call leaves alone
ConcurrentUnchanged ==
    UNCHANGED <<auditVars, normVars, runtime, env, request, response, req_pc,
                original_cwd, audited, executed, constitution, approvalVars>>

\* lines 66-68 of caller i: original_cwd = os.getcwd() when a workdir is given
ExecGetcwd(i) ==
    /\ calls[i].pc = "called"
    /\ calls' = [calls EXCEPT
                   ![i].original_cwd = IF calls[i].workdir # "" THEN cwd ELSE "",
                   ![i].pc = IF calls[i].workdir # "" THEN "chdir" ELSE "try"]
    /\ cwd' = cwd
    /\ ConcurrentUnchanged

\* line 69 of caller i: os.chdir(os.path.expanduser(workdir))
ExecChdir(i) ==
    /\ calls[i].pc = "chdir"
    /\ cwd' = expanduser(calls[i].workdir)
    /\ calls' = [calls EXCEPT ![i].pc = "try"]
    /\ ConcurrentUnchanged

\* lines 71-88 of caller i: the command is audited and, when allowed, run in
\* the working directory of the process
ExecTry(i) ==
    /\ calls[i].pc = "try"
    /\ \E outcome \in ExecOutcomes :
          LET r == run_intercepted_command(config, llm_auditor, calls[i].command,
                                           outcome)
          IN  calls' = [calls EXCEPT
                          ![i].ran_in = IF r.executed # <<>> THEN <<cwd>> ELSE <<>>,
                          ![i].pc = "finally"]
    /\ cwd' = cwd
    /\ ConcurrentUnchanged

\* lines 90-92 of caller i: the finally clause, then the call returns
ExecFinally(i) ==
    /\ calls[i].pc = "finally"
    /\ cwd' = IF calls[i].original_cwd # "" THEN calls[i].original_cwd ELSE cwd
    /\ calls' = [calls EXCEPT ![i].pc = "returned"]
    /\ ConcurrentUnchanged

NextConcurrent ==
    \E i \in Callers : ExecGetcwd(i) \/ ExecChdir(i) \/ ExecTry(i) \/ ExecFinally(i)

SpecConcurrent == InitConcurrent /\ [][NextConcurrent]_vars

----------------------------------------------------------------------------
(* Calls of an ApprovalManager *)

InitApprovals ==
    /\ AuditorIdle
    /\ NormIdle
    /\ runtime = FALSE
    /\ env = NoEnv
    /\ request = NoRequest
    /\ response = NoResponse
    /\ req_pc = "idle"
    /\ cwd = Home
    /\ original_cwd = ""
    /\ audited = <<>>
    /\ executed = <<>>
    /\ constitution = NoConstitution
    /\ calls = <<>>
    /\ requests = <<>>
    /\ resolved = [id \in RequestIds |-> ""]
    /\ returned = LastCall("__init__", "", TRUE, {}, <<>>)
    /\ now = 0

\* what a call of the ApprovalManager leaves alone
ApprovalsUnchanged ==
    UNCHANGED <<auditVars, normVars, gatewayVars, constitution, calls>>

\* time passes
Tick ==
    /\ now < MaxClock
    /\ now' = now + 1
    /\ UNCHANGED <<requests, resolved, returned>>
    /\ ApprovalsUnchanged

\* manager.create_request(command, rule_name, reason); uuid4 gives an id that
\* no stored request has
CreateRequest ==
    /\ \E req_id \in RequestIds \ DOMAIN requests :
          LET c == create_request(requests, req_id, "rm x", "hitl", "needs approval", now)
          IN  /\ requests' = c.requests
              /\ returned' = LastCall("create_request", c.returned, TRUE, {}, requests)
    /\ UNCHANGED <<resolved, now>>
    /\ ApprovalsUnchanged

\* manager.resolve_request(req_id, status)
ResolveRequest ==
    /\ \E req_id \in RequestIds, status \in Statuses :
          LET c == resolve_request(requests, req_id, status)
          IN  /\ requests' = c.requests
              /\ returned' = LastCall("resolve_request", req_id, c.returned, {}, requests)
              /\ resolved' = IF /\ c.returned
                                /\ resolved[req_id] = ""
                                /\ status \in {"approved", "rejected"}
                             THEN [resolved EXCEPT ![req_id] = status]
                             ELSE resolved
    /\ now' = now
    /\ ApprovalsUnchanged

\* manager.list_pending()
ListPending ==
    /\ returned' = LastCall("list_pending", "", TRUE, DOMAIN list_pending(requests),
                            requests)
    /\ UNCHANGED <<requests, resolved, now>>
    /\ ApprovalsUnchanged

\* manager.cleanup_old_requests(max_age_seconds)
CleanupOldRequests ==
    /\ \E max_age_seconds \in {0, 3600} :
          requests' = cleanup_old_requests(requests, max_age_seconds)
    /\ returned' = LastCall("cleanup_old_requests", "", TRUE, {}, requests)
    /\ UNCHANGED <<resolved, now>>
    /\ ApprovalsUnchanged

NextApprovals == Tick \/ CreateRequest \/ ResolveRequest \/ ListPending \/ CleanupOldRequests

SpecApprovals == InitApprovals /\ [][NextApprovals]_vars

----------------------------------------------------------------------------
(* Properties of the lockdown allow-list and of the configuration *)

\* the matching the specification gives for entry e, command c and the first
\* shell token t of c
SpecifiedEntryMatches(e, c, t) ==
    IF Contains(e, " ")
    THEN c = e \/ StartsWith(c, e)
    ELSE c = e \/ StartsWith(c, e \o " ") \/ t = e \/ Basename(t) = e

\* the first shell token of c, "" when there is none
FirstShellToken(c) == IF Tokens(c) # <<>> THEN Head(Tokens(c)) ELSE ""

\* the admission the specification gives for the normalized command n
SpecifiedAdmitted(cfg, n) ==
    /\ cfg.allowed_commands # <<>>
    /\ \E i \in 1..Len(cfg.allowed_commands) :
          SpecifiedEntryMatches(Lower(_normalize_command(cfg.allowed_commands[i])),
                                Lower(n), FirstShellToken(Lower(n)))

\* C22.  Lockdown allow-list matching equals the specified predicate: under
\* lockdown a non-empty command is admitted iff allowed_commands is non-empty
\* and some entry e (normalized, lowercased) matches the lowercased normalized
\* command c, where an e with a space matches iff c = e or c starts with e, and
\* an e without a space matches iff c = e, c starts with e and a space, or the
\* first shell token of c (or its basename) equals e.
C22_LockdownMatching ==
    (pc = "returned" /\ config.lockdown_mode /\ Normalized # "")
        => ((decision.reason # LockdownReason) <=> SpecifiedAdmitted(config, Normalized))

\* the value the loader uses for a key with a top-level fallback
WithFallback(v, top) == IF v.kind = "missing" THEN top ELSE v

\* a sequence field of the config for the value v of its key: the default when
\* the key is absent, one element for a scalar string, the items of a list
SequenceFrom(field, v, default) ==
    /\ v.kind = "missing" => field = default
    /\ v.kind = "str" => field = <<v.text>>
    /\ v.kind = "list" => field = StrItems(v.items)

\* lockdown_mode for the value v of its key: false when absent, the boolean
BooleanFrom(field, v) ==
    /\ v.kind = "missing" => field = FALSE
    /\ v.kind = "bool" => field = v.flag

\* the four blocked lists are determined by their sections alone
BlockedListsFromSections ==
    /\ SequenceFrom(config.blocked_strings,
                    constitution.hard_kill.keys["blocked_strings"], DefaultBlockedStrings)
    /\ SequenceFrom(config.blocked_paths,
                    constitution.hard_kill.keys["blocked_paths"], DefaultBlockedPaths)
    /\ SequenceFrom(config.blocked_tools,
                    constitution.hard_kill.keys["blocked_tools"], DefaultBlockedTools)
    /\ SequenceFrom(config.blocked_network_tools,
                    constitution.network_lock.keys["blocked_tools"], DefaultNetworkTools)

\* C23 as stated.  The config is determined only by the hard_kill,
\* network_lock and execution_mode sections: an absent section or key yields
\* the default, a scalar string is a one-element sequence, and a top-level
\* lockdown_mode, allowed_commands or whitelisted_domains has no effect.
C23_SectionsOnly ==
    pc = "ready" =>
        /\ BlockedListsFromSections
        /\ SequenceFrom(config.whitelisted_domains,
                        constitution.network_lock.keys["whitelisted_domains"], <<>>)
        /\ BooleanFrom(config.lockdown_mode,
                       constitution.execution_mode.keys["lockdown_mode"])
        /\ SequenceFrom(config.allowed_commands,
                        constitution.execution_mode.keys["allowed_commands"], <<>>)

\* C23.  The config is determined by the three sections and, for
\* whitelisted_domains, lockdown_mode and allowed_commands, by the top-level
\* key of the same name where the section lacks the key: an absent key yields
\* the default, a scalar string is a one-element sequence, and any other
\* top-level key (a top-level blocked_strings) has no effect.
C23_SectionsWithFallback ==
    pc = "ready" =>
        /\ BlockedListsFromSections
        /\ SequenceFrom(config.whitelisted_domains,
                        WithFallback(constitution.network_lock.keys["whitelisted_domains"],
                                     constitution.top["whitelisted_domains"]), <<>>)
        /\ BooleanFrom(config.lockdown_mode,
                       WithFallback(constitution.execution_mode.keys["lockdown_mode"],
                                    constitution.top["lockdown_mode"]))
        /\ SequenceFrom(config.allowed_commands,
                        WithFallback(constitution.execution_mode.keys["allowed_commands"],
                                     constitution.top["allowed_commands"]), <<>>)

\* a constitution with a scalar blocked_strings, a top-level blocked_strings
\* and a top-level lockdown_mode was loaded: lockdown is on
C23_Witness ==
    /\ pc = "ready"
    /\ constitution.hard_kill.keys["blocked_strings"] = Str("sudo")
    /\ constitution.top["blocked_strings"].kind = "list"
    /\ constitution.execution_mode.kind = "missing"
    /\ constitution.top["lockdown_mode"] = Bool(TRUE)
    /\ config.blocked_strings = <<"sudo">>
    /\ config.lockdown_mode

----------------------------------------------------------------------------
(* Properties of the execution fields, the url extraction and the LLM call *)

\* the answer of a call of the exec skill that did not raise
SkillAnswered ==
    /\ request.endpoint = "exec"
    /\ req_pc \in {"ran", "done"}
    /\ ~response.raised

GateReached(n) ==
    /\ ~EmptyFires(n)
    /\ ~LockdownFires(n)
    /\ ~BlockedStringFires(n)
    /\ ~BlockedPathFires(n)
    /\ ~BlockedToolFires(n)
    /\ ~Base64Fires(n)
    /\ _contains_network_tool(config, Lower(n))

\* the urls the specification extracts: the tokens of the normalized command n
\* (POSIX split, whitespace split when that fails) that begin with http:// or
\* https://, and when there are none the matches of the regex in the raw
\* command
SpecifiedUrls(n, rawCommand) ==
    IF UrlTokens(Tokens(n)) # <<>> THEN UrlTokens(Tokens(n)) ELSE FindUrls(rawCommand)

\* C25.  URL extraction in the network gate follows the specified steps: POSIX
\* splitting with whitespace splitting as fallback, the tokens beginning with
\* http:// or https://, and if there are none a regex scan over the raw
\* command; so a command is rejected for lacking a URL iff it reaches the gate
\* and these steps extract nothing, and a network command whose only defect is
\* an unbalanced quote around a whitelisted URL is not rejected for lacking one.
C25_UrlExtraction ==
    pc = "returned" =>
        ((decision = Reject(NoUrlReason, 10))
            <=> (GateReached(Normalized) /\ SpecifiedUrls(Normalized, command) = <<>>))

\* the hard-kill filter on the normalized command of the call
Filtered == _hard_kill_filter(config, Normalized)

\* C26.  Within one audit call the LLM auditor is invoked at most once, only
\* after the hard-kill filter has declined to reject and only when there is no
\* allow-list hit, and it receives the normalized command; an allow-list hit
\* returns allowed = true, risk_score = 0, "Command explicitly allowed by
\* policy." without invoking it, and a hard-kill rejection is returned without
\* invoking it.
C26_LlmAtMostOnce ==
    pc # "ready" =>
        /\ Len(llm_calls) <= 1
        /\ llm_calls # <<>>
              => /\ llm_calls = <<Normalized>>
                 /\ Filtered = <<>>
                 /\ ~_is_allowed_in_lockdown(config, Normalized)
        /\ (Filtered = <<>> /\ _is_allowed_in_lockdown(config, Normalized))
              => /\ pc = "returned"
                 /\ decision = Decision(TRUE, 0, ExplicitAllowReason)
                 /\ llm_calls = <<>>
        /\ Filtered # <<>>
              => /\ llm_calls = <<>>
                 /\ pc = "returned" => <<decision>> = Filtered

\* the LLM auditor was given a normalized command that differs from the
\* command of the call, and its verdict was returned
C26_Witness ==
    /\ pc = "returned"
    /\ llm_calls = <<Normalized>>
    /\ Normalized # command
    /\ decision.reason = LlmReason

\* C27.  When lockdown_mode is true the LLM auditor is never invoked and the
\* reason "LLM auditor unavailable" never occurs: every command is either
\* rejected by the deterministic filter or accepted by the allow-list with
\* risk_score 0.
C27_LockdownNeverAsksLlm ==
    (pc # "ready" /\ config.lockdown_mode) =>
        /\ llm_calls = <<>>
        /\ pc = "returned"
        /\ decision.reason # LlmUnavailableReason
        /\ \/ (~decision.allowed /\ decision.risk_score = 10 /\ <<decision>> = Filtered)
           \/ decision = Decision(TRUE, 0, ExplicitAllowReason)

\* C28.  With an empty whitelisted_domains, every command whose normalized
\* form contains a blocked network tool as a whole word is rejected by the
\* deterministic layer: it is never passed to the LLM auditor and never
\* accepted by an allow-list, whatever URLs it contains.
C28_NoWhitelistNoNetwork ==
    (/\ pc # "ready"
     /\ config.whitelisted_domains = <<>>
     /\ _contains_network_tool(config, Lower(Normalized)))
        => /\ llm_calls = <<>>
           /\ pc = "returned"
           /\ ~decision.allowed
           /\ decision.risk_score = 10
           /\ <<decision>> = Filtered

\* C29.  If the deterministic layer lets a network-tool command through, every
\* http:// or https:// URL occurring anywhere in the normalized command has a
\* whitelisted hostname, including URLs inside a token that does not start
\* with the scheme when another token is a whitelisted URL.
C29_EveryUrlWhitelisted ==
    (PassedFilter /\ _contains_network_tool(config, Lower(Normalized)))
        => \A i \in 1..Len(FindUrls(Normalized)) : GoodUrl(FindUrls(Normalized)[i])

----------------------------------------------------------------------------
(* Properties of concurrent exec calls and of the approval store *)

\* the calls ask for pairwise different workdirs
DifferentWorkdirs ==
    \A i, j \in Callers : i # j => calls[i].workdir # calls[j].workdir

\* C21.  Workdir manipulation is serialized across concurrent executions: for
\* any interleaving of two or more execute calls with different workdirs, each
\* command runs while the working directory of the process equals its own
\* requested workdir, and after all calls have returned the working directory
\* equals the one in effect before the first call.
C21_WorkdirSerialized ==
    DifferentWorkdirs =>
        /\ \A i \in Callers :
              (calls[i].ran_in # <<>> /\ calls[i].workdir # "")
                  => calls[i].ran_in = <<expanduser(calls[i].workdir)>>
        /\ (\A i \in Callers : calls[i].pc = "returned") => cwd = request.cwd

\* C30.  In the approval store resolution is final: after any sequence of
\* create_request, resolve_request and cleanup_old_requests calls, a request
\* whose status has once been set to "approved" or "rejected" is never again
\* returned by list_pending and keeps that status; resolve_request on an
\* unknown id returns false and leaves every stored request unchanged.
C30_ResolutionFinal ==
    /\ \A id \in RequestIds :
          resolved[id] # ""
              => /\ id \in DOMAIN requests
                 /\ requests[id].status = resolved[id]
                 /\ id \notin DOMAIN list_pending(requests)
                 /\ returned.op = "list_pending" => id \notin returned.ids
    /\ (returned.op = "resolve_request" /\ returned.id \notin DOMAIN returned.before)
          => (~returned.ok /\ requests = returned.before)

============================================================================
